---- MODULE Spec2Model ----
(***************************************************************************)
(* Model of the tool-augmented assistant orchestrator of the issue         *)
(* tracker backend: the POST /chat handler of routes/assistant.ts (payload *)
(* validation, credential mint, tool loop, reply) for one chat request,    *)
(* with the worker transport, the model API and the credential store as    *)
(* its environment.                                                        *)
(***************************************************************************)
EXTENDS Integers, Sequences, FiniteSets, TLC

(***************************************************************************)
(* Program constants.                                                      *)
(***************************************************************************)
MAX_TURNS == 5

MaxHistory == 12

MaxContent == 4000

DayMs == 86400000

(***************************************************************************)
(* Bounds of the model (not program constants).                            *)
(***************************************************************************)
\* tool calls one model response may carry
MaxCalls == 2

\* tool calls the model may request over one chat request
MaxToolCalls == 6

\* choices of the model and the worker in one request's tool loop that differ
\* from the plain case; they fall within one turn (a response of the model
\* and the calls it carries), and a request whose body, mint or tool list
\* differs from the plain case runs a plain loop
MaxOdd == 1

(***************************************************************************)
(* Strings.  A string is lead whitespace characters, then body characters  *)
(* that start and end with a non-whitespace character, then trail          *)
(* whitespace characters; an all-whitespace string keeps its length in     *)
(* lead.                                                                   *)
(***************************************************************************)
Str(l, b, t) == [lead |-> l, body |-> b, trail |-> t]

StrLen(s) == s.lead + s.body + s.trail

\* String.prototype.slice(0, k)
Slice0(s, k) ==
  IF k >= StrLen(s) THEN s
  ELSE IF k <= s.lead THEN Str(k, 0, 0)
  ELSE IF k <= s.lead + s.body THEN Str(s.lead, k - s.lead, 0)
  ELSE Str(s.lead, s.body, k - s.lead - s.body)

\* String.prototype.trim()
Trim(s) == IF s.body = 0 THEN Str(0, 0, 0) ELSE Str(0, s.body, 0)

EmptyStr == Str(0, 0, 0)

\* a JSON value used as message content: a string or something else
StringVal(s) == [isString |-> TRUE, str |-> s]

NonString == [isString |-> FALSE, str |-> EmptyStr]

\* variant: the value is not trimmed
ensureStringNoTrim(value) == IF value.isString THEN value.str ELSE EmptyStr

ensureString(value) == IF value.isString THEN Trim(value.str) ELSE EmptyStr

(***************************************************************************)
(* Request body.  An element of messages is a JSON value: an object with   *)
(* role and content, null, a falsy primitive (0, "", false) or a truthy    *)
(* primitive.                                                              *)
(***************************************************************************)
Msg(r, c) == [kind |-> "object", role |-> r, content |-> c]

NullElem == [kind |-> "null", role |-> "undefined", content |-> NonString]

FalsyElem == [kind |-> "falsy", role |-> "undefined", content |-> NonString]

TruthyElem == [kind |-> "truthy", role |-> "undefined", content |-> NonString]

PlainMsg == Msg("user", StringVal(Str(0, 1, 0)))

\* predicate of messages.find in the handler; reading a property of null throws
InvalidMessagePred(m) ==
  \/ (m.role # "user" /\ m.role # "assistant")
  \/ ~m.content.isString
  \/ StrLen(Trim(m.content.str)) = 0

\* index of the element messages.find stops at (0: it runs off the end)
FindStop(items) ==
  LET hits == {i \in 1..Len(items) :
                 items[i].kind = "null" \/ InvalidMessagePred(items[i])}
  IN IF hits = {} THEN 0 ELSE CHOOSE i \in hits : \A j \in hits : i <= j

\* "throws" | "invalid" | "pass" : messages.find followed by if (invalidMessage)
ValidateMessages(items) ==
  LET i == FindStop(items)
  IN IF i = 0 THEN "pass"
     ELSE IF items[i].kind = "null" THEN "throws"
     ELSE IF items[i].kind = "falsy" THEN "pass"
     ELSE "invalid"

\* Array.prototype.slice(-n)
SliceLast(items, n) ==
  IF Len(items) <= n THEN items
  ELSE SubSeq(items, Len(items) - n + 1, Len(items))

sanitizeThrows(items) ==
  \E i \in 1..Len(SliceLast(items, MaxHistory)) :
     SliceLast(items, MaxHistory)[i].kind = "null"

sanitizeMessages(items) ==
  LET trimmed == SliceLast(items, MaxHistory)
  IN [i \in 1..Len(trimmed) |->
        [role |-> IF trimmed[i].role = "assistant" THEN "assistant" ELSE "user",
         content |-> IF trimmed[i].content.isString
                       THEN StringVal(Slice0(trimmed[i].content.str, MaxContent))
                       ELSE StringVal(EmptyStr)]]

buildSystemPrompt == StringVal(Str(0, 5, 0))

SystemMessage == [role |-> "system", content |-> buildSystemPrompt]

(***************************************************************************)
(* Credentials.  A key string is absent, falsy ("" and the other falsy     *)
(* JSON values), a string chosen by the model, or a minted plaintext       *)
(* assistant_<userId>_<ms>_<suffix>.                                       *)
(***************************************************************************)
KeyAbsent == [tag |-> "absent", userId |-> "", ms |-> 0, suffix |-> 0]

KeyFalsy == [tag |-> "falsy", userId |-> "", ms |-> 0, suffix |-> 0]

KeyModel == [tag |-> "model", userId |-> "", ms |-> 0, suffix |-> 0]

Plaintext(userId, ms, suffix) ==
  [tag |-> "assistant", userId |-> userId, ms |-> ms, suffix |-> suffix]

\* crypto.createHash("sha256").update(k).digest("base64url")
Sha256(k) == [digest |-> k]

\* the row getOrCreateApiKey inserts
KeyRow(userId, plaintextKey, nowIso, expiresAt) ==
  [userId |-> userId, name |-> "Assistant Key", prefix |-> "assi",
   start |-> "assistan", key |-> Sha256(plaintextKey), enabled |-> 1,
   expiresAt |-> expiresAt, createdAt |-> nowIso, updatedAt |-> nowIso]

\* a row of another user that is in the store before the request
OtherRow == KeyRow("u2", Plaintext("u2", 0, 9), 0, DayMs)

\* readings of the clock during one mint (the request starts at time 0)
MaxDrift == 1

Suffixes == {1, 2}

(***************************************************************************)
(* Tool descriptors and the model's function-calling schema.               *)
(***************************************************************************)
Descriptor(n, d, hasSchema) ==
  [name |-> n, description |-> d, inputSchema |-> [given |-> hasSchema, of |-> n]]

DefaultParameters == [given |-> TRUE, of |-> "{type:object,properties:{}}"]

ToolNames == <<"issues-create", "issues-list">>

ToolLists ==
  << <<Descriptor(ToolNames[1], "create an issue", TRUE),
       Descriptor(ToolNames[2], "", FALSE)>>,
     <<>>,
     <<Descriptor(ToolNames[2], "list issues", TRUE)>> >>

mapMcpToolsToOpenAiTools(mcpTools) ==
  [i \in 1..Len(mcpTools) |->
     [type |-> "function",
      function |-> [name |-> mcpTools[i].name,
                    description |-> mcpTools[i].description,
                    parameters |-> IF mcpTools[i].inputSchema.given
                                     THEN mcpTools[i].inputSchema
                                     ELSE DefaultParameters]]]

(***************************************************************************)
(* Tool calls.  function.arguments is absent or a JSON-encoded string; the *)
(* string is not JSON, or encodes an object (with or without an apiKey     *)
(* member), an array, null or a primitive.                                 *)
(***************************************************************************)
ArgKinds == <<"object", "absent", "badjson", "array", "null", "prim">>

ArgKeys == <<KeyAbsent, KeyFalsy, KeyModel>>

Arguments(kind, key, rest) == [kind |-> kind, apiKey |-> key, rest |-> rest]

\* the argument strings the model may send with call number id
ArgumentChoices(id) ==
  {Arguments("object", k, id) : k \in {ArgKeys[i] : i \in 1..Len(ArgKeys)}}
  \cup {Arguments(ArgKinds[i], KeyAbsent, id) : i \in 2..Len(ArgKinds)}

PlainArguments(id) == Arguments("object", KeyAbsent, id)

\* call.function.arguments ? JSON.parse(call.function.arguments) : {}, {} on a parse error
ParseArguments(a) ==
  IF a.kind \in {"absent", "badjson"}
    THEN [t |-> "object", apiKey |-> KeyAbsent, rest |-> 0]
    ELSE [t |-> a.kind, apiKey |-> a.apiKey, rest |-> a.rest]

\* !args.apiKey
KeyIsFalsy(k) == k.tag \in {"absent", "falsy"}

\* reading a property of null throws; so does, in an ES module, setting one on a primitive
InjectThrows(args) == args.t \in {"null", "prim"}

\* variant: the minted key always replaces the model's
InjectApiKeyAlways(args, userKey) == [args EXCEPT !.apiKey = userKey]

InjectApiKey(args, userKey) ==
  IF KeyIsFalsy(args.apiKey) THEN [args EXCEPT !.apiKey = userKey] ELSE args

(***************************************************************************)
(* Tool results.  A result carries content blocks; a text block's text is  *)
(* a string that is JSON (an object or null), blank, or other text, or it  *)
(* is not a string.                                                        *)
(***************************************************************************)
Block(type, isString, text, v) ==
  [type |-> type, isString |-> isString, text |-> text, v |-> v]

\* the results the worker may give to call number id
ResultChoices(id) ==
  << <<Block("text", TRUE, "json", id)>>,
     <<Block("image", FALSE, "none", 0), Block("text", TRUE, "raw", id),
       Block("text", TRUE, "json", id)>>,
     <<Block("text", TRUE, "blank", 0)>>,
     <<Block("text", TRUE, "jsonnull", 0)>>,
     <<Block("image", FALSE, "none", 0)>>,
     <<Block("text", FALSE, "none", 0)>> >>

Payload(t, v, msg) == [t |-> t, v |-> v, msg |-> msg]

\* variant: the last text block is taken
FirstTextLast(content) ==
  LET hits == {i \in 1..Len(content) : content[i].type = "text"}
  IN IF hits = {} THEN 0 ELSE CHOOSE i \in hits : \A j \in hits : i >= j

\* result.content.find(item => item.type === "text"): 0 when there is none
FirstText(content) ==
  LET hits == {i \in 1..Len(content) : content[i].type = "text"}
  IN IF hits = {} THEN 0 ELSE CHOOSE i \in hits : \A j \in hits : i <= j

extractThrows(content) ==
  IF FirstText(content) = 0 THEN TRUE ELSE ~content[FirstText(content)].isString

extractToolPayload(content) ==
  LET item == content[FirstText(content)]
  IN CASE item.text = "blank" -> Payload("emptyobject", 0, "")
       [] item.text = "json" -> Payload("object", item.v, "")
       [] item.text = "jsonnull" -> Payload("null", 0, "")
       [] OTHER -> Payload("string", item.v, "")

\* variant: the message itself is recorded
ErrorPayloadBare(msg) == Payload("string", 0, msg)

\* { error: errorMessage }
ErrorPayload(msg) == Payload("error", 0, msg)

NoTextMessage == "Tool returned no readable text content"

\* messages of the errors callMcpTool rejects with
RpcErrors == <<"Connection closed">>

\* JSON.stringify(payload ?? {})
Stringify(payload) ==
  [json |-> IF payload.t = "null" THEN Payload("emptyobject", 0, "") ELSE payload]

ToolMessage(call, payload) ==
  [role |-> "tool", tool_call_id |-> call.id, content |-> Stringify(payload),
   name |-> call.name]

(***************************************************************************)
(* Model responses.                                                        *)
(***************************************************************************)
PlainContent == StringVal(Str(0, 2, 0))

\* content of a response: text, empty, blank, text in whitespace, not a string
\* (a response that starts another turn carries the text: its content is
\* only copied into the history)
Contents ==
  <<PlainContent, StringVal(EmptyStr), StringVal(Str(2, 0, 0)),
    StringVal(Str(1, 3, 1)), NonString>>

Call(id, name, arguments) == [id |-> id, name |-> name, arguments |-> arguments]

Response(content, calls) ==
  [role |-> "assistant", content |-> content, tool_calls |-> calls]

NoResponse == Response(NonString, <<>>)

(***************************************************************************)
(* Requests.                                                               *)
(***************************************************************************)
Body(isArray, items) == [isArray |-> isArray, items |-> items]

PlainBody == Body(TRUE, <<PlainMsg>>)

\* 13 messages, the n-th with n characters of content
LongHistory == [n \in 1..(MaxHistory + 1) |-> Msg("user", StringVal(Str(0, n, 0)))]

Bodies ==
  { PlainBody,
    Body(FALSE, <<>>),
    Body(TRUE, <<>>),
    Body(TRUE, <<PlainMsg, Msg("assistant", StringVal(Str(1, 1, 1)))>>),
    Body(TRUE, <<Msg("system", StringVal(Str(0, 1, 0)))>>),
    Body(TRUE, <<PlainMsg, Msg("tool", StringVal(Str(0, 1, 0)))>>),
    Body(TRUE, <<Msg("user", StringVal(EmptyStr))>>),
    Body(TRUE, <<Msg("assistant", StringVal(Str(3, 0, 0))), PlainMsg>>),
    Body(TRUE, <<Msg("user", NonString)>>),
    Body(TRUE, <<TruthyElem>>),
    Body(TRUE, <<FalsyElem>>),
    Body(TRUE, <<NullElem>>),
    Body(TRUE, <<PlainMsg, NullElem>>),
    Body(TRUE, <<FalsyElem, NullElem>>),
    Body(TRUE, <<FalsyElem, Msg("system", StringVal(EmptyStr))>>),
    Body(TRUE, LongHistory),
    Body(TRUE, [LongHistory EXCEPT ![1] = Msg("system", StringVal(EmptyStr))]),
    Body(TRUE, <<Msg("user", StringVal(Str(0, MaxContent + 1, 0)))>>),
    Body(TRUE, <<Msg("user", StringVal(Str(MaxContent, 1, 0)))>>) }

Users == {"none", "u1"}

NoData == [has |-> FALSE, reply |-> EmptyStr, toolResults |-> <<>>]

Envelope(status, error, message) ==
  [status |-> status, success |-> FALSE, error |-> error, message |-> message,
   data |-> NoData]

\* variant: only the results of the last call are reported
SuccessKeepsLast(replyText, toolResults) ==
  [status |-> 200, success |-> TRUE, error |-> "", message |-> "",
   data |-> [has |-> TRUE, reply |-> replyText,
             toolResults |-> IF Len(toolResults) = 0 THEN toolResults
                             ELSE <<toolResults[Len(toolResults)]>>]]

Success(replyText, toolResults) ==
  [status |-> 200, success |-> TRUE, error |-> "", message |-> "",
   data |-> [has |-> TRUE, reply |-> replyText, toolResults |-> toolResults]]

NotSent == [status |-> 0, success |-> FALSE, error |-> "", message |-> "",
            data |-> NoData]

(***************************************************************************)
(* State.                                                                  *)
(***************************************************************************)
VARIABLES
  pc,                    \* where the handler is (what it awaits)
  aiApiKey,              \* process.env.AI_API_KEY: "set" or "unset"
  currentUser,           \* request.user id, "none" when absent
  body,                  \* request.body.messages
  apikey,                \* rows of the apikey table
  userApiKey,            \* the plaintext getOrCreateApiKey returned
  tools,                 \* tool specs given to the model
  chatMessages,
  currentResponse,
  turns,
  callIdx,               \* position of the for loop in toolCalls
  turnToolResults,
  collectedToolPayloads,
  response,              \* what reply.send was given
  sent,                  \* number of responses sent
  mintCalls,             \* calls of getOrCreateApiKey
  listCalls,             \* calls of listMcpTools
  modelCalls,            \* calls of callAIChatWithTools
  dispatched,            \* (call, args) of every callMcpTool call
  issued,                \* tool calls the model has requested so far
  outcome,               \* how the awaited callMcpTool settled
  settled,               \* how every callMcpTool call settled
  odd,                   \* environment choices off the plain case so far
  oddTurn,               \* the model call in whose turn they fell, 0 before
  listOutcome,           \* how the awaited listMcpTools settled
  modelOutcome,          \* how the last callAIChatWithTools settled
  clientPromise,         \* lib/mcpClient.ts: 0 (null) or the connection it holds
  transport,             \* lib/mcpClient.ts: 0 (null) or the connection it holds
  conns,                 \* every connection createClient has made
  callers,               \* the listMcpTools/callMcpTool calls of the requests
  resetPc,               \* position of resetMcpClient
  started,               \* listMcpTools/callMcpTool calls started
  events,                \* close and error events reported or brought about so far
  resets,                \* calls of resetMcpClient so far
  now,                   \* the clock of the data API
  header,                \* x-api-key of the last request to the data API
  checkedAt,             \* the time of that request
  verdict,               \* what apiKeyMiddleware did with it
  session,               \* the session that request carried
  chats,                 \* two chat requests side by side: position, minted key, calls
  wire,                  \* the tools/call requests written to the worker so far
  store,                 \* middleware/rateLimit.ts: the entries of the store
  windows                \* per limiter and client: its open window and what it admitted

handler == <<pc, aiApiKey, currentUser, body, apikey, userApiKey, tools,
          chatMessages, currentResponse, turns, callIdx, turnToolResults,
          collectedToolPayloads, response, sent, mintCalls, listCalls,
          modelCalls, dispatched, issued, outcome, settled, odd, oddTurn,
          listOutcome, modelOutcome>>

input == <<aiApiKey, currentUser, body>>

loopVars == <<tools, chatMessages, currentResponse, turns, callIdx,
              turnToolResults, collectedToolPayloads>>

calls == <<mintCalls, listCalls, modelCalls, dispatched, issued>>

mcp == <<clientPromise, transport, conns, callers, resetPc, started, events, resets>>

api == <<now, header, checkedAt, verdict, session>>

pair == <<chats, wire>>

rate == <<store, windows>>

vars == <<handler, mcp, api, pair, rate>>

tool == <<outcome, settled>>

env == <<odd, oddTurn, listOutcome, modelOutcome>>

NoOutcome == [rejected |-> FALSE, message |-> "", content |-> <<>>]

(***************************************************************************)
(* State of lib/mcpClient.ts.  A connection is the StdioClientTransport    *)
(* and Client one createClient call makes, with the worker it spawns:     *)
(* promise is the state of the promise createClient returned, worker the  *)
(* state of the child process, nextId the id the client gives its next    *)
(* request, reported whether its onclose or onerror has run.  A caller is *)
(* one chat request using listMcpTools/callMcpTool.                        *)
(***************************************************************************)
\* chat requests that use the transport
MaxCallers == 2

\* listMcpTools/callMcpTool calls over one run
MaxRequests == 3

\* close events, error events and calls of resetMcpClient over one run
MaxEvents == 2

Callers == 1..MaxCallers

NewConn ==
  [promise |-> "pending", worker |-> "alive", nextId |-> 0, reported |-> FALSE]

NoRequest == [method |-> "none", by |-> 0]

NoResult == [worker |-> 0, of |-> NoRequest]

IdleCaller ==
  [pc |-> "idle", client |-> 0, id |-> 0, request |-> NoRequest, got |-> NoResult]

McpInit ==
  /\ clientPromise = 0
  /\ transport = 0
  /\ conns = <<>>
  /\ callers = [r \in Callers |-> IdleCaller]
  /\ resetPc = "idle"
  /\ started = 0
  /\ events = 0
  /\ resets = 0

(***************************************************************************)
(* The key check of the data API.  An x-api-key header is absent, a        *)
(* string or an array of strings; a string is a key string or the text of  *)
(* a digest, with or without whitespace around it.                         *)
(***************************************************************************)
\* days the clock of the data API may advance
MaxDays == 2

Header(form, pad, text) == [form |-> form, pad |-> pad, text |-> text]

NoHeader == Header("absent", 0, KeyFalsy)

\* strings a client may present: minted or mintable plaintexts, the key of
\* another user, strings that are never minted, "", and stored digests
HeaderTexts ==
  {Plaintext("u1", 0, sfx) : sfx \in Suffixes}
  \cup {Plaintext("u2", 0, 9), Plaintext("u1", 5, 1), KeyModel, KeyFalsy}
  \cup {Sha256(Plaintext("u1", 0, 1)), Sha256(Plaintext("u2", 0, 9))}

Headers ==
  {NoHeader}
  \cup {Header("string", 0, t) : t \in HeaderTexts}
  \cup {Header("string", 1, t) : t \in {Plaintext("u1", 0, 1), KeyFalsy}}
  \cup {Header("array", 1, Plaintext("u1", 0, 1))}

Verdict(status, code, userId) == [status |-> status, code |-> code, userId |-> userId]

NoVerdict == Verdict(0, "none", "")

ApiInit ==
  /\ now = MaxDrift
  /\ header = NoHeader
  /\ checkedAt = 0
  /\ verdict = NoVerdict
  /\ session = "none"

(***************************************************************************)
(* Two chat requests of different users side by side.  Each has its own    *)
(* activation of the handler (its own userApiKey); they share the apikey   *)
(* table and the worker.                                                   *)
(***************************************************************************)
\* tool calls one of the two requests may dispatch
MaxChatCalls == 2

Chats == {1, 2}

ChatUser(r) == IF r = 1 THEN "u1" ELSE "u3"

NewChat == [pc |-> "start", userApiKey |-> KeyAbsent, calls |-> 0]

PairInit ==
  /\ chats = [r \in Chats |-> NewChat]
  /\ wire = <<>>

(***************************************************************************)
(* The rate limiter.  One store for all limiters, keyed by the client IP.  *)
(***************************************************************************)
\* the pre-configured limiters: max requests per window (ms)
rateLimits ==
  [api    |-> [max |-> 100, window |-> 15 * 60 * 1000],
   auth   |-> [max |-> 50, window |-> 15 * 60 * 1000],
   create |-> [max |-> 20, window |-> 60 * 1000]]

Limiters == DOMAIN rateLimits

Ips == {"10.0.0.1"}

\* `rate-limit:${ip}`
generateKey(ip) == <<"rate-limit:", ip>>

NoEntry == [has |-> FALSE, count |-> 0, resetTime |-> 0]

\* requests one entry of the store may count
MaxCount == 21

\* minutes the clock of the limiter may advance
MaxMinutes == 1

MinuteMs == 60000

RateInit ==
  /\ store = [k \in {generateKey(ip) : ip \in Ips} |-> NoEntry]
  /\ windows = [l \in Limiters |-> [ip \in Ips |-> NoEntry]]

HandlerInit ==
  /\ pc = "start"
  /\ aiApiKey \in {"set", "unset"}
  /\ currentUser \in Users
  /\ body \in Bodies
  /\ apikey = <<OtherRow>>
  /\ userApiKey = KeyAbsent
  /\ tools = <<>>
  /\ chatMessages = <<>>
  /\ currentResponse = NoResponse
  /\ turns = 0
  /\ callIdx = 0
  /\ turnToolResults = <<>>
  /\ collectedToolPayloads = <<>>
  /\ response = NotSent
  /\ sent = 0
  /\ mintCalls = 0
  /\ listCalls = 0
  /\ modelCalls = 0
  /\ dispatched = <<>>
  /\ issued = 0
  /\ outcome = NoOutcome
  /\ settled = <<>>
  /\ odd = IF body = PlainBody THEN 0 ELSE MaxOdd
  /\ oddTurn = 0
  /\ listOutcome = "none"
  /\ modelOutcome = "none"

Init == HandlerInit /\ McpInit /\ ApiInit /\ PairInit /\ RateInit

\* reply.status(s).send(envelope) and return
Send(r, state) ==
  /\ response' = r
  /\ sent' = sent + 1
  /\ pc' = state

\* body of the catch block that ends the handler's try
AssistantError(message) == Send(Envelope(502, "Assistant error", message), "failed")

(***************************************************************************)
(* Checks at the start of the handler.                                     *)
(***************************************************************************)
RejectNotConfigured ==
  /\ pc = "start"
  /\ aiApiKey = "unset"
  /\ Send(Envelope(503, "AI not configured", "Set AI_API_KEY"), "failed")
  /\ UNCHANGED <<mcp, api, pair, rate, tool, input, apikey, userApiKey, loopVars, calls, env>>

RejectUnauthorized ==
  /\ pc = "start"
  /\ aiApiKey # "unset"
  /\ currentUser = "none"
  /\ Send(Envelope(401, "Unauthorized", "User authentication required"), "failed")
  /\ UNCHANGED <<mcp, api, pair, rate, tool, input, apikey, userApiKey, loopVars, calls, env>>

\* variant: the configuration check does not stop the handler
PastAuthSkipsConfig == pc = "start" /\ currentUser # "none"

PastAuth == pc = "start" /\ aiApiKey # "unset" /\ currentUser # "none"

RejectNotArray ==
  /\ PastAuth
  /\ (~body.isArray \/ Len(body.items) = 0)
  /\ Send(Envelope(400, "Invalid payload", "messages must be a non-empty array"),
          "failed")
  /\ UNCHANGED <<mcp, api, pair, rate, tool, input, apikey, userApiKey, loopVars, calls, env>>

PastArray == PastAuth /\ body.isArray /\ Len(body.items) > 0

RejectInvalidMessage ==
  /\ PastArray
  /\ ValidateMessages(body.items) = "invalid"
  /\ Send(Envelope(400, "Invalid payload",
                   "Each message must include a role and non-empty content."),
          "failed")
  /\ UNCHANGED <<mcp, api, pair, rate, tool, input, apikey, userApiKey, loopVars, calls, env>>

\* the predicate of find throws outside any try: the framework answers
ValidationThrows ==
  /\ PastArray
  /\ ValidateMessages(body.items) = "throws"
  /\ Send(Envelope(500, "TypeError", "Cannot read properties of null"), "failed")
  /\ UNCHANGED <<mcp, api, pair, rate, tool, input, apikey, userApiKey, loopVars, calls, env>>

BeginMint ==
  /\ PastArray
  /\ ValidateMessages(body.items) = "pass"
  /\ mintCalls' = mintCalls + 1
  /\ pc' = "mint"
  /\ UNCHANGED <<mcp, api, pair, rate, tool, input, apikey, userApiKey, loopVars, response, sent,
                 listCalls, modelCalls, dispatched, issued, env>>

(***************************************************************************)
(* getOrCreateApiKey.                                                      *)
(***************************************************************************)
Cost(plain) == IF plain THEN 0 ELSE 1

\* the mint of the plain case: the clock does not move, the first suffix
PlainMint(t3, sfx) == t3 = 0 /\ sfx = 1

\* variant: the provisioning error is logged and the handler goes on
MintFailsSwallowed ==
  /\ pc = "mint"
  /\ listCalls' = listCalls + 1
  /\ pc' = "listTools"
  /\ UNCHANGED <<mcp, api, pair, rate, tool, input, apikey, userApiKey, loopVars, response, sent,
                 mintCalls, modelCalls, dispatched, issued, env>>

\* getDatabase or the INSERT throws: nothing is stored
MintFailsNoRow ==
  /\ pc = "mint"
  /\ Send(Envelope(500, "Internal Server Error",
                   "Unable to provision API access for assistant actions"),
          "failed")
  /\ UNCHANGED <<mcp, api, pair, rate, tool, input, apikey, userApiKey, loopVars, calls, env>>

\* db.close() in the finally block throws after the INSERT went through
MintFailsAfterInsert ==
  /\ pc = "mint"
  /\ \E t1 \in {0}, t2 \in 0..MaxDrift, t3 \in 0..MaxDrift, sfx \in Suffixes :
       /\ t1 <= t2 /\ t2 <= t3
       /\ PlainMint(t3, sfx) \/ odd = 0
       /\ odd' = IF PlainMint(t3, sfx) THEN odd ELSE MaxOdd
       /\ UNCHANGED <<oddTurn, listOutcome, modelOutcome>>
       /\ apikey' = Append(apikey,
            KeyRow(currentUser, Plaintext(currentUser, t1, sfx), t2, t3 + DayMs))
  /\ Send(Envelope(500, "Internal Server Error",
                   "Unable to provision API access for assistant actions"),
          "failed")
  /\ UNCHANGED <<mcp, api, pair, rate, tool, input, userApiKey, loopVars, calls>>

\* variant: the returned key is built from a later reading of the clock
MintedRereadsClock(t1, t2, t3, sfx) ==
  /\ t1 <= t2 /\ t2 <= t3
  /\ PlainMint(t3, sfx) \/ odd = 0
  /\ odd' = IF PlainMint(t3, sfx) THEN odd ELSE MaxOdd
  /\ UNCHANGED <<oddTurn, listOutcome, modelOutcome>>
  /\ apikey' = Append(apikey,
       KeyRow(currentUser, Plaintext(currentUser, t1, sfx), t2, t3 + DayMs))
  /\ userApiKey' = Plaintext(currentUser, t3, sfx)

Minted(t1, t2, t3, sfx) ==
  /\ t1 <= t2 /\ t2 <= t3
  /\ PlainMint(t3, sfx) \/ odd = 0
  /\ odd' = IF PlainMint(t3, sfx) THEN odd ELSE MaxOdd
  /\ UNCHANGED <<oddTurn, listOutcome, modelOutcome>>
  /\ apikey' = Append(apikey,
       KeyRow(currentUser, Plaintext(currentUser, t1, sfx), t2, t3 + DayMs))
  /\ userApiKey' = Plaintext(currentUser, t1, sfx)

\* the key is returned, the history is sanitized and listMcpTools is called
MintOk ==
  /\ pc = "mint"
  /\ ~sanitizeThrows(body.items)
  /\ \E t1 \in {0}, t2 \in 0..MaxDrift, t3 \in 0..MaxDrift, sfx \in Suffixes :
       Minted(t1, t2, t3, sfx)
  /\ listCalls' = listCalls + 1
  /\ pc' = "listTools"
  /\ UNCHANGED <<mcp, api, pair, rate, tool, input, loopVars, response, sent, mintCalls, modelCalls,
                 dispatched, issued>>

\* sanitizeMessages reads a property of a null element inside the try
MintOkSanitizeThrows ==
  /\ pc = "mint"
  /\ sanitizeThrows(body.items)
  /\ \E t1 \in {0}, t2 \in 0..MaxDrift, t3 \in 0..MaxDrift, sfx \in Suffixes :
       Minted(t1, t2, t3, sfx)
  /\ AssistantError("Cannot read properties of null")
  /\ UNCHANGED <<mcp, api, pair, rate, tool, input, loopVars, calls>>

(***************************************************************************)
(* listMcpTools and callAIChatWithTools.                                   *)
(***************************************************************************)
\* callAIChatWithTools is called with chatMessages and tools as they now are
CallModel ==
  /\ modelCalls' = modelCalls + 1
  /\ pc' = "model"

\* variant: a failed tools/list is taken as an empty tool list
ListToolsFailsNoTools ==
  /\ pc = "listTools"
  /\ listOutcome' = "rejected"
  /\ tools' = <<>>
  /\ chatMessages' = <<SystemMessage>> \o sanitizeMessages(body.items)
  /\ CallModel
  /\ UNCHANGED <<mcp, api, pair, rate, tool, input, apikey, userApiKey, currentResponse, turns, callIdx,
                 turnToolResults, collectedToolPayloads, response, sent,
                 mintCalls, listCalls, dispatched, issued, odd, oddTurn,
                 modelOutcome>>

\* the awaited listMcpTools rejects: the handler's catch block answers
ListToolsFails ==
  /\ pc = "listTools"
  /\ listOutcome' = "rejected"
  /\ AssistantError(RpcErrors[1])
  /\ UNCHANGED <<mcp, api, pair, rate, tool, input, apikey, userApiKey, loopVars, calls, odd, oddTurn,
                 modelOutcome>>

\* variant: the list starts with the caller's history, the system prompt is left out
ListToolsOkNoPrompt ==
  /\ pc = "listTools"
  /\ \E k \in 1..Len(ToolLists) :
       /\ k = 1 \/ odd = 0
       /\ odd' = IF k = 1 THEN odd ELSE MaxOdd
       /\ UNCHANGED oddTurn
       /\ tools' = mapMcpToolsToOpenAiTools(ToolLists[k])
  /\ listOutcome' = "tools"
  /\ chatMessages' = sanitizeMessages(body.items)
  /\ CallModel
  /\ UNCHANGED <<mcp, api, pair, rate, tool, input, apikey, userApiKey, currentResponse, turns, callIdx,
                 turnToolResults, collectedToolPayloads, response, sent,
                 mintCalls, listCalls, dispatched, issued, modelOutcome>>

\* listMcpTools resolves: the list is seeded and the model is called
ListToolsOk ==
  /\ pc = "listTools"
  /\ \E k \in 1..Len(ToolLists) :
       /\ k = 1 \/ odd = 0
       /\ odd' = IF k = 1 THEN odd ELSE MaxOdd
       /\ UNCHANGED oddTurn
       /\ tools' = mapMcpToolsToOpenAiTools(ToolLists[k])
  /\ listOutcome' = "tools"
  /\ chatMessages' = <<SystemMessage>> \o sanitizeMessages(body.items)
  /\ CallModel
  /\ UNCHANGED <<mcp, api, pair, rate, tool, input, apikey, userApiKey, currentResponse, turns, callIdx,
                 turnToolResults, collectedToolPayloads, response, sent,
                 mintCalls, listCalls, dispatched, issued, modelOutcome>>

\* non-plain choices still open in the turn of the current model call
Left == IF odd = 0 \/ oddTurn = modelCalls THEN MaxOdd - odd ELSE 0

Spend(k) ==
  /\ k <= Left
  /\ odd' = odd + k
  /\ oddTurn' = IF k = 0 THEN oddTurn ELSE modelCalls
  /\ UNCHANGED listOutcome

ModelErrors == <<"AI API request failed with status", "AI API returned no message">>

\* variant: a failed model call is made again
ModelFailsRetried ==
  /\ pc = "model"
  /\ modelCalls <= MAX_TURNS
  /\ modelOutcome' = "rejected"
  /\ CallModel
  /\ UNCHANGED <<mcp, api, pair, rate, tool, input, apikey, userApiKey, loopVars, response, sent,
                 mintCalls, listCalls, dispatched, issued, odd, oddTurn,
                 listOutcome>>

\* non-success status, or a payload without choices[0].message
ModelFails ==
  /\ pc = "model"
  /\ \E k \in 1..Len(ModelErrors) :
       /\ Spend(Cost(k = 1))
       /\ AssistantError(ModelErrors[k])
  /\ modelOutcome' = "rejected"
  /\ UNCHANGED <<mcp, api, pair, rate, tool, input, apikey, userApiKey, loopVars, calls>>

\* variant: the bound is off by one
LoopConditionOffByOne(resp, t) == Len(resp.tool_calls) > 0 /\ t <= MAX_TURNS

\* condition of the while loop
LoopCondition(resp, t) == Len(resp.tool_calls) > 0 /\ t < MAX_TURNS

\* the calls the model may make as call number id (the tool varies with id)
CallOptions(id) ==
  {Call(id, ToolNames[(id % Len(ToolNames)) + 1], a) : a \in ArgumentChoices(id)}

CallCost(c) == Cost(c.arguments = PlainArguments(c.id))

RECURSIVE CallsCost(_)
CallsCost(cs) ==
  IF Len(cs) = 0 THEN 0
  ELSE CallCost(cs[Len(cs)]) + CallsCost(SubSeq(cs, 1, Len(cs) - 1))

\* the tool calls a response may carry: n calls numbered first+1 .. first+n,
\* at most budget of their names and arguments off the plain case
RECURSIVE CallChoices(_, _, _)
CallChoices(first, n, budget) ==
  IF n = 0 THEN {<<>>}
  ELSE UNION {{Append(cs, c) : c \in {o \in CallOptions(first + n) :
                                        CallsCost(cs) + CallCost(o) <= budget}} :
              cs \in CallChoices(first, n - 1, budget)}

ModelOk ==
  /\ pc = "model"
  /\ \E c \in 1..Len(Contents), n \in 0..MaxCalls :
       /\ issued + n <= MaxToolCalls
       /\ c = 1 \/ ~LoopCondition(Response(Contents[c], [j \in 1..n |-> j]), turns)
       /\ Cost(c = 1) <= Left
       /\ \E cs \in CallChoices(issued, n, Left - Cost(c = 1)) :
            /\ Spend(Cost(c = 1) + CallsCost(cs))
            /\ currentResponse' = Response(Contents[c], cs)
       /\ issued' = issued + n
  /\ modelOutcome' = "message"
  /\ pc' = "loop"
  /\ UNCHANGED <<mcp, api, pair, rate, tool, input, apikey, userApiKey, tools, chatMessages, turns, callIdx,
                 turnToolResults, collectedToolPayloads, response, sent,
                 mintCalls, listCalls, modelCalls, dispatched>>

(***************************************************************************)
(* The tool loop.                                                          *)
(***************************************************************************)
\* variant: the history gets the arguments as they are dispatched
EnterTurnInjected ==
  /\ pc = "loop"
  /\ LoopCondition(currentResponse, turns)
  /\ turns' = turns + 1
  /\ chatMessages' = Append(chatMessages,
       [currentResponse EXCEPT !.tool_calls =
          [j \in 1..Len(currentResponse.tool_calls) |->
             LET call == currentResponse.tool_calls[j]
             IN [call EXCEPT !.arguments.apiKey =
                   IF KeyIsFalsy(call.arguments.apiKey) THEN userApiKey
                   ELSE call.arguments.apiKey]]])
  /\ turnToolResults' = <<>>
  /\ callIdx' = 1
  /\ pc' = "call"
  /\ UNCHANGED <<mcp, api, pair, rate, tool, input, apikey, userApiKey, tools, currentResponse,
                 collectedToolPayloads, response, sent, calls, env>>

EnterTurn ==
  /\ pc = "loop"
  /\ LoopCondition(currentResponse, turns)
  /\ turns' = turns + 1
  /\ chatMessages' = Append(chatMessages, currentResponse)
  /\ turnToolResults' = <<>>
  /\ callIdx' = 1
  /\ pc' = "call"
  /\ UNCHANGED <<mcp, api, pair, rate, tool, input, apikey, userApiKey, tools, currentResponse,
                 collectedToolPayloads, response, sent, calls, env>>

toolCalls == currentResponse.tool_calls

\* JSON.parse of the arguments, then the key check: setting args.apiKey throws
ResolveThrows ==
  /\ pc = "call"
  /\ callIdx <= Len(toolCalls)
  /\ InjectThrows(ParseArguments(toolCalls[callIdx].arguments))
  /\ AssistantError("Cannot set properties")
  /\ UNCHANGED <<mcp, api, pair, rate, tool, input, apikey, userApiKey, loopVars, calls, env>>

DispatchCall ==
  /\ pc = "call"
  /\ callIdx <= Len(toolCalls)
  /\ ~InjectThrows(ParseArguments(toolCalls[callIdx].arguments))
  /\ dispatched' = Append(dispatched,
       [turn |-> turns, call |-> toolCalls[callIdx],
        args |-> InjectApiKey(ParseArguments(toolCalls[callIdx].arguments),
                              userApiKey)])
  /\ pc' = "tool"
  /\ UNCHANGED <<mcp, api, pair, rate, tool, input, apikey, userApiKey, loopVars, response, sent,
                 mintCalls, listCalls, modelCalls, issued, env>>

\* the awaited callMcpTool settles: the worker answers with content blocks
WorkerAnswers ==
  /\ pc = "tool"
  /\ \E k \in 1..Len(ResultChoices(0)) :
       /\ Spend(Cost(k = 1))
       /\ outcome' = [rejected |-> FALSE, message |-> "",
                      content |-> ResultChoices(toolCalls[callIdx].id)[k]]
  /\ settled' = Append(settled, outcome')
  /\ pc' = "settled"
  /\ UNCHANGED <<mcp, api, pair, rate, input, apikey, userApiKey, loopVars, response, sent, calls,
                 modelOutcome>>

\* callMcpTool rejects: the worker is unreachable or answers with an error
WorkerRejects ==
  /\ pc = "tool"
  /\ Spend(1)
  /\ \E k \in 1..Len(RpcErrors) :
       outcome' = [rejected |-> TRUE, message |-> RpcErrors[k], content |-> <<>>]
  /\ settled' = Append(settled, outcome')
  /\ pc' = "settled"
  /\ UNCHANGED <<mcp, api, pair, rate, input, apikey, userApiKey, loopVars, response, sent, calls,
                 modelOutcome>>

\* what the try block around callMcpTool and extractToolPayload throws
Throws(o) == IF o.rejected THEN TRUE ELSE extractThrows(o.content)

ErrorMessage(o) == IF o.rejected THEN o.message ELSE NoTextMessage

\* variant: the tool message is put in front of the turn's results
RecordUnshift(payload) ==
  /\ turnToolResults' = <<ToolMessage(currentResponse.tool_calls[callIdx], payload)>>
                        \o turnToolResults
  /\ collectedToolPayloads' = Append(collectedToolPayloads,
       [name |-> currentResponse.tool_calls[callIdx].name, payload |-> payload])
  /\ callIdx' = callIdx + 1
  /\ pc' = "call"

\* both branches of the try push a tool message and a collected payload
Record(payload) ==
  /\ turnToolResults' = Append(turnToolResults,
                               ToolMessage(toolCalls[callIdx], payload))
  /\ collectedToolPayloads' = Append(collectedToolPayloads,
       [name |-> toolCalls[callIdx].name, payload |-> payload])
  /\ callIdx' = callIdx + 1
  /\ pc' = "call"

ToolSucceeded ==
  /\ pc = "settled"
  /\ ~Throws(outcome)
  /\ Record(extractToolPayload(outcome.content))
  /\ UNCHANGED <<mcp, api, pair, rate, input, apikey, userApiKey, tools, chatMessages,
                 currentResponse, turns, response, sent, calls, outcome,
                 settled, env>>

\* variant: the error of the tool call reaches the handler's outer catch
ToolCaughtRethrows ==
  /\ pc = "settled"
  /\ Throws(outcome)
  /\ AssistantError(ErrorMessage(outcome))
  /\ UNCHANGED <<mcp, api, pair, rate, tool, input, apikey, userApiKey, loopVars, calls, env>>

\* the catch block of the try around callMcpTool
ToolCaught ==
  /\ pc = "settled"
  /\ Throws(outcome)
  /\ Record(ErrorPayload(ErrorMessage(outcome)))
  /\ UNCHANGED <<mcp, api, pair, rate, input, apikey, userApiKey, tools, chatMessages,
                 currentResponse, turns, response, sent, calls, outcome,
                 settled, env>>

\* variant: the tools are listed again before the model is called
EndTurnRelists ==
  /\ pc = "call"
  /\ callIdx > Len(toolCalls)
  /\ chatMessages' = chatMessages \o turnToolResults
  /\ listCalls' = listCalls + 1
  /\ CallModel
  /\ UNCHANGED <<mcp, api, pair, rate, tool, input, apikey, userApiKey, tools, currentResponse, turns,
                 callIdx, turnToolResults, collectedToolPayloads, response,
                 sent, mintCalls, dispatched, issued, env>>

\* after the for loop: the tool messages are pushed and the model is called
EndTurn ==
  /\ pc = "call"
  /\ callIdx > Len(toolCalls)
  /\ chatMessages' = chatMessages \o turnToolResults
  /\ CallModel
  /\ UNCHANGED <<mcp, api, pair, rate, tool, input, apikey, userApiKey, tools, currentResponse, turns,
                 callIdx, turnToolResults, collectedToolPayloads, response,
                 sent, mintCalls, listCalls, dispatched, issued, env>>

NoContentMessage == "LLM returned no content in response"

\* variant: the missing content is logged and the handler returns
ReplyNoContentSilent ==
  /\ pc = "loop"
  /\ ~LoopCondition(currentResponse, turns)
  /\ StrLen(ensureString(currentResponse.content)) = 0
  /\ pc' = "failed"
  /\ UNCHANGED <<mcp, api, pair, rate, tool, input, apikey, userApiKey, loopVars, response,
                 sent, calls, env>>

ReplyNoContent ==
  /\ pc = "loop"
  /\ ~LoopCondition(currentResponse, turns)
  /\ StrLen(ensureString(currentResponse.content)) = 0
  /\ AssistantError(NoContentMessage)
  /\ UNCHANGED <<mcp, api, pair, rate, tool, input, apikey, userApiKey, loopVars, calls, env>>

\* variant: the minted key is revoked when the reply is sent
ReplyDoneRevokes ==
  /\ pc = "loop"
  /\ ~LoopCondition(currentResponse, turns)
  /\ StrLen(ensureString(currentResponse.content)) > 0
  /\ Send(Success(ensureString(currentResponse.content), collectedToolPayloads),
          "done")
  /\ apikey' = [apikey EXCEPT ![Len(apikey)].enabled = 0]
  /\ UNCHANGED <<mcp, api, pair, rate, tool, input, userApiKey, loopVars, calls, env>>

ReplyDone ==
  /\ pc = "loop"
  /\ ~LoopCondition(currentResponse, turns)
  /\ StrLen(ensureString(currentResponse.content)) > 0
  /\ Send(Success(ensureString(currentResponse.content), collectedToolPayloads),
          "done")
  /\ UNCHANGED <<mcp, api, pair, rate, tool, input, apikey, userApiKey, loopVars, calls, env>>

Next ==
  \/ RejectNotConfigured
  \/ RejectUnauthorized
  \/ RejectNotArray
  \/ RejectInvalidMessage
  \/ ValidationThrows
  \/ BeginMint
  \/ MintFailsNoRow
  \/ MintFailsAfterInsert
  \/ MintOk
  \/ MintOkSanitizeThrows
  \/ ListToolsFails
  \/ ListToolsOk
  \/ ModelFails
  \/ ModelOk
  \/ EnterTurn
  \/ ResolveThrows
  \/ DispatchCall
  \/ WorkerAnswers
  \/ WorkerRejects
  \/ ToolSucceeded
  \/ ToolCaught
  \/ EndTurn
  \/ ReplyNoContent
  \/ ReplyDone

Spec == Init /\ [][Next]_vars

\* every awaited call settles and the handler goes on when it does: the
\* handler is one sequential async function, so some step is always taken
FairSpec == Spec /\ WF_vars(Next)

TypeOK ==
  /\ pc \in {"start", "mint", "listTools", "model", "loop", "call", "tool", "settled",
             "done", "failed"}
  /\ turns \in 0..MAX_TURNS
  /\ sent \in 0..1
  /\ odd \in 0..MaxOdd
  /\ oddTurn \in 0..(MAX_TURNS + 1)
  /\ listOutcome \in {"none", "tools", "rejected"}
  /\ modelOutcome \in {"none", "message", "rejected"}

(***************************************************************************)
(* lib/mcpClient.ts: the shared connection to the worker.  Code between    *)
(* two awaits runs without interruption; the worker, the SDK client and    *)
(* the callers of resetMcpClient are the environment.                      *)
(***************************************************************************)
Conns == 1..Len(conns)

\* createClient up to its await: the transport is stored and the worker spawned
createClient ==
  /\ conns' = Append(conns, NewConn)
  /\ transport' = Len(conns) + 1

\* variant: a creation that is still going on is taken up again
getMcpClientGuarded ==
  IF clientPromise # 0
    THEN UNCHANGED <<clientPromise, transport, conns>>
    ELSE IF \E c \in Conns : conns[c].promise = "pending" /\ conns[c].worker = "alive"
      THEN /\ clientPromise' = CHOOSE c \in Conns :
                conns[c].promise = "pending" /\ conns[c].worker = "alive"
           /\ UNCHANGED <<transport, conns>>
      ELSE createClient /\ clientPromise' = Len(conns) + 1

\* if (!clientPromise) clientPromise = createClient(); return clientPromise
getMcpClient ==
  IF clientPromise = 0
    THEN createClient /\ clientPromise' = Len(conns) + 1
    ELSE UNCHANGED <<clientPromise, transport, conns>>

\* a request starts a call: getMcpClient runs and the caller awaits the promise
StartCall(r, method) ==
  /\ started < MaxRequests
  /\ started' = started + 1
  /\ getMcpClient
  /\ callers' = [callers EXCEPT ![r] =
       [pc |-> "await", client |-> clientPromise', id |-> 0,
        request |-> [method |-> method, by |-> r], got |-> NoResult]]
  /\ UNCHANGED <<handler, api, pair, rate, resetPc, events, resets>>

\* variant: listing the tools starts a client of its own
listMcpToolsFresh ==
  \E r \in Callers :
    /\ callers[r].pc = "idle"
    /\ \A q \in 1..(r - 1) : callers[q].pc # "idle"
    /\ started < MaxRequests
    /\ started' = started + 1
    /\ createClient
    /\ clientPromise' = Len(conns) + 1
    /\ callers' = [callers EXCEPT ![r] =
         [pc |-> "await", client |-> clientPromise', id |-> 0,
          request |-> [method |-> "tools/list", by |-> r], got |-> NoResult]]
    /\ UNCHANGED <<handler, api, pair, rate, resetPc, events, resets>>

\* a chat request lists the tools first (the requests are alike: they start
\* in the order of their numbers)
listMcpTools ==
  \E r \in Callers :
    /\ callers[r].pc = "idle"
    /\ \A q \in 1..(r - 1) : callers[q].pc # "idle"
    /\ StartCall(r, "tools/list")

\* and calls tools, one at a time, once it has the list; a failed tool call
\* does not end the request
callMcpTool ==
  \E r \in Callers :
    /\ \/ callers[r].pc = "done"
       \/ callers[r].pc = "failed" /\ callers[r].request.method = "tools/call"
    /\ StartCall(r, "tools/call")

\* client.connect(transport) returns: the promise of createClient resolves
Connected ==
  \E c \in Conns :
    /\ conns[c].promise = "pending"
    /\ conns[c].worker = "alive"
    /\ conns' = [conns EXCEPT ![c].promise = "resolved"]
    /\ UNCHANGED <<handler, api, pair, rate, clientPromise, transport, callers, resetPc, started,
                   events, resets>>

\* the child process cannot be started: connect rejects and onerror runs
SpawnFails ==
  \E c \in Conns :
    /\ conns[c].promise = "pending"
    /\ conns[c].worker = "alive"
    /\ events + resets < MaxEvents
    /\ events' = events + 1
    /\ conns' = [conns EXCEPT ![c].promise = "rejected", ![c].worker = "dead",
                              ![c].reported = TRUE]
    /\ clientPromise' = 0
    /\ UNCHANGED <<handler, api, pair, rate, transport, callers, resetPc, started, resets>>

\* the handshake fails: connect closes the transport and rejects; the close
\* event this brings about is counted here
HandshakeFails ==
  \E c \in Conns :
    /\ conns[c].promise = "pending"
    /\ conns[c].worker = "alive"
    /\ events + resets < MaxEvents
    /\ events' = events + 1
    /\ conns' = [conns EXCEPT ![c].promise = "rejected", ![c].worker = "closing"]
    /\ UNCHANGED <<handler, api, pair, rate, clientPromise, transport, callers, resetPc, started,
                   resets>>

\* variant: onclose leaves the stored promise as it is
CloseEventKeepsPromise ==
  \E c \in Conns :
    /\ conns[c].worker \in {"alive", "closing"}
    /\ conns[c].worker = "closing" \/ events + resets < MaxEvents
    /\ events' = IF conns[c].worker = "closing" THEN events ELSE events + 1
    /\ conns' = [conns EXCEPT
         ![c].worker = "dead",
         ![c].reported = TRUE,
         ![c].promise = IF @ = "pending" THEN "rejected" ELSE @]
    /\ UNCHANGED <<handler, api, pair, rate, clientPromise, transport, callers, resetPc, started, resets>>

\* transport.onclose of connection c: the worker has exited, at any time of
\* its own accord, and for certain once close() was called on its transport
\* (that close was counted with the handshake failure or reset that called it)
CloseEvent ==
  \E c \in Conns :
    /\ conns[c].worker \in {"alive", "closing"}
    /\ conns[c].worker = "closing" \/ events + resets < MaxEvents
    /\ events' = IF conns[c].worker = "closing" THEN events ELSE events + 1
    /\ conns' = [conns EXCEPT
         ![c].worker = "dead",
         ![c].reported = TRUE,
         ![c].promise = IF @ = "pending" THEN "rejected" ELSE @]
    /\ clientPromise' = 0
    /\ UNCHANGED <<handler, api, pair, rate, transport, callers, resetPc, started, resets>>

\* transport.onerror of connection c: the worker goes on running
ErrorEvent ==
  \E c \in Conns :
    /\ conns[c].worker \in {"alive", "closing"}
    /\ events + resets < MaxEvents
    /\ events' = events + 1
    /\ conns' = [conns EXCEPT ![c].reported = TRUE]
    /\ clientPromise' = 0
    /\ UNCHANGED <<handler, api, pair, rate, transport, callers, resetPc, started, resets>>

\* the awaited promise rejected: the error goes to the caller
Rejected ==
  \E r \in Callers :
    /\ callers[r].pc = "await"
    /\ conns[callers[r].client].promise = "rejected"
    /\ callers' = [callers EXCEPT ![r].pc = "failed"]
    /\ UNCHANGED <<handler, api, pair, rate, clientPromise, transport, conns, resetPc, started,
                   events, resets>>

\* variant: the client gives every request the same id
NextRequestIdSame(c) == 0

\* the id client c gives the request it sends next: a counter of its own
NextRequestId(c) == conns[c].nextId

\* the awaited promise resolved: client.request sends under the client's next id
Request(r) ==
  /\ callers[r].pc = "await"
  /\ conns[callers[r].client].promise = "resolved"
  /\ conns[callers[r].client].worker = "alive"
  /\ callers' = [callers EXCEPT ![r].pc = "sent",
                                ![r].id = NextRequestId(callers[r].client)]
  /\ conns' = [conns EXCEPT ![callers[r].client].nextId = @ + 1]
  /\ UNCHANGED <<handler, api, pair, rate, clientPromise, transport, resetPc, started, events,
                 resets>>

Requested == \E r \in Callers : Request(r)

\* client.request on a connection that is no longer open throws
RequestNotConnected ==
  \E r \in Callers :
    /\ callers[r].pc = "await"
    /\ conns[callers[r].client].promise = "resolved"
    /\ conns[callers[r].client].worker # "alive"
    /\ callers' = [callers EXCEPT ![r].pc = "failed"]
    /\ UNCHANGED <<handler, api, pair, rate, clientPromise, transport, conns, resetPc, started,
                   events, resets>>

\* the caller whose response handler client c holds under id
HandlerOf(c, id) ==
  CHOOSE q \in Callers :
    callers[q].pc = "sent" /\ callers[q].client = c /\ callers[q].id = id

\* what worker c answers to a request
Result(c, request) == [worker |-> c, of |-> request]

\* the worker answers one of the requests it holds, in any order; the client
\* resolves the request registered under the id of the response
Answered ==
  \E r \in Callers :
    /\ callers[r].pc = "sent"
    /\ conns[callers[r].client].worker = "alive"
    /\ LET c == callers[r].client
           q == HandlerOf(c, callers[r].id)
       IN callers' = [callers EXCEPT ![q].pc = "done", ![q].id = 0,
                                     ![q].got = Result(c, callers[r].request)]
    /\ UNCHANGED <<handler, api, pair, rate, clientPromise, transport, conns, resetPc, started,
                   events, resets>>

\* the connection closed with the request pending: the request rejects
RequestLost ==
  \E r \in Callers :
    /\ callers[r].pc = "sent"
    /\ conns[callers[r].client].worker = "dead"
    /\ callers' = [callers EXCEPT ![r].pc = "failed", ![r].id = 0]
    /\ UNCHANGED <<handler, api, pair, rate, clientPromise, transport, conns, resetPc, started,
                   events, resets>>

\* resetMcpClient with no transport: only the promise is dropped
ResetNoTransport ==
  /\ resetPc = "idle"
  /\ events + resets < MaxEvents
  /\ transport = 0
  /\ resets' = resets + 1
  /\ clientPromise' = 0
  /\ UNCHANGED <<handler, api, pair, rate, transport, conns, callers, resetPc, started, events>>

\* resetMcpClient up to its await: transport.close() is called
ResetBegin ==
  /\ resetPc = "idle"
  /\ events + resets < MaxEvents
  /\ transport # 0
  /\ resets' = resets + 1
  /\ conns' = [conns EXCEPT
       ![transport].worker = IF @ = "alive" THEN "closing" ELSE @]
  /\ resetPc' = "closing"
  /\ UNCHANGED <<handler, api, pair, rate, clientPromise, transport, callers, started, events>>

\* resetMcpClient after its await: transport = null; clientPromise = null
ResetEnd ==
  /\ resetPc = "closing"
  /\ transport' = 0
  /\ clientPromise' = 0
  /\ resetPc' = "idle"
  /\ UNCHANGED <<handler, api, pair, rate, conns, callers, started, events, resets>>

McpNext ==
  \/ listMcpTools
  \/ callMcpTool
  \/ Connected
  \/ SpawnFails
  \/ HandshakeFails
  \/ CloseEvent
  \/ ErrorEvent
  \/ Rejected
  \/ Requested
  \/ RequestNotConnected
  \/ Answered
  \/ RequestLost
  \/ ResetNoTransport
  \/ ResetBegin
  \/ ResetEnd

\* the transport on its own: no chat request is being handled
McpStart ==
  /\ HandlerInit
  /\ aiApiKey = "set"
  /\ currentUser = "none"
  /\ body = PlainBody
  /\ McpInit
  /\ ApiInit
  /\ PairInit
  /\ RateInit

SpecMcp == McpStart /\ [][McpNext]_vars

\* the close event of a transport that close() was called on
ClosingCloses ==
  /\ CloseEvent
  /\ \E c \in Conns : conns[c].worker = "closing" /\ conns'[c].worker = "dead"

\* calls, connection attempts and their failures, with the close and error
\* events of the transports: the transport while resetMcpClient is not called
ConnectNext ==
  \/ listMcpTools
  \/ callMcpTool
  \/ Connected
  \/ SpawnFails
  \/ HandshakeFails
  \/ CloseEvent
  \/ Rejected
  \/ Requested
  \/ RequestNotConnected
  \/ Answered
  \/ RequestLost
  \/ ErrorEvent

\* a transport that was closed reports its close, and a rejected promise
\* rejects the calls that await it
FairMcp ==
  McpStart /\ [][ConnectNext]_vars /\ WF_vars(ClosingCloses) /\ WF_vars(Rejected)

McpTypeOK ==
  /\ clientPromise \in 0..Len(conns)
  /\ transport \in 0..Len(conns)
  /\ Len(conns) <= MaxRequests
  /\ resetPc \in {"idle", "closing"}
  /\ \A r \in Callers : callers[r].client \in 0..Len(conns)

(***************************************************************************)
(* Properties.                                                             *)
(***************************************************************************)
\* 1 while a callMcpTool call is awaited or its result not yet recorded
InFlight == IF pc \in {"tool", "settled"} THEN 1 ELSE 0

\* the arguments as the model wrote them
ModelArgs(d) == ParseArguments(d.call.arguments)

\* the model has answered the last call made to it
LastAnswered ==
  \/ pc \in {"loop", "done"}
  \/ pc = "failed" /\ response.message = NoContentMessage

\* C1: one chat request runs at most MAX_TURNS = 5 rounds of tool dispatch and
\* makes at most 6 model calls; the tool calls of a 6th response are never
\* dispatched.
C1_TurnBound ==
  /\ turns <= MAX_TURNS
  /\ modelCalls <= MAX_TURNS + 1
  /\ \A k \in 1..Len(dispatched) : dispatched[k].turn \in 1..MAX_TURNS
  /\ (modelCalls = MAX_TURNS + 1 /\ LastAnswered) =>
       \A k \in 1..Len(dispatched), j \in 1..Len(toolCalls) :
          dispatched[k].call # toolCalls[j]

\* the 6th response asked for tool calls and the request ended without them
C1_Witness ==
  /\ pc = "done"
  /\ modelCalls = MAX_TURNS + 1
  /\ turns = MAX_TURNS
  /\ Len(toolCalls) > 0

\* C2: a tool call that throws does not fail the request: the handler records
\* {error: message} for it, appends a tool message with the call's id and that
\* error, goes on to the next call of the turn, and after the last call of the
\* turn calls the model with the turn's tool messages in the history.
C2_Step ==
  /\ (pc = "settled" /\ Throws(outcome)) =>
       /\ pc' = "call"
       /\ sent' = sent
       /\ callIdx' = callIdx + 1
       /\ turnToolResults' = Append(turnToolResults,
            [role |-> "tool", tool_call_id |-> toolCalls[callIdx].id,
             content |-> [json |-> Payload("error", 0, ErrorMessage(outcome))],
             name |-> toolCalls[callIdx].name])
       /\ collectedToolPayloads' = Append(collectedToolPayloads,
            [name |-> toolCalls[callIdx].name,
             payload |-> Payload("error", 0, ErrorMessage(outcome))])
  /\ (pc = "call" /\ callIdx <= Len(toolCalls)
        /\ ModelArgs([call |-> toolCalls[callIdx]]).t \in {"object", "array"}) =>
       /\ pc' = "tool"
       /\ Len(dispatched') = Len(dispatched) + 1
       /\ dispatched'[Len(dispatched')].call = toolCalls[callIdx]
  /\ (pc = "call" /\ callIdx > Len(toolCalls)) =>
       /\ pc' = "model"
       /\ modelCalls' = modelCalls + 1
       /\ SubSeq(chatMessages', Len(chatMessages') - Len(turnToolResults) + 1,
                 Len(chatMessages')) = turnToolResults

C3_SequentialInOrder ==
  /\ Len(dispatched) = Len(collectedToolPayloads) + InFlight
  /\ Len(settled) \in {Len(dispatched) - 1, Len(dispatched)}
  /\ pc \in {"call", "tool", "settled"} =>
       /\ Len(turnToolResults) = callIdx - 1
       /\ \A j \in 1..Len(turnToolResults) :
            /\ turnToolResults[j].role = "tool"
            /\ turnToolResults[j].tool_call_id = toolCalls[j].id
       /\ \A j \in 1..(callIdx - 1 + InFlight) :
            dispatched[Len(dispatched) - (callIdx - 1 + InFlight) + j].call
              = toolCalls[j]
  /\ (pc = "model" /\ turns > 0) =>
       LET n == Len(toolCalls)
           asked == chatMessages[Len(chatMessages) - n]
       IN /\ Len(chatMessages) > n
          /\ asked = currentResponse
          /\ \A j \in 1..n :
               /\ chatMessages[Len(chatMessages) - n + j].role = "tool"
               /\ chatMessages[Len(chatMessages) - n + j].tool_call_id
                    = toolCalls[j].id
  /\ pc = "model" =>
       /\ Len(settled) = Len(dispatched)
       /\ Cardinality({i \in 1..Len(chatMessages) : chatMessages[i].role = "tool"})
            = Len(dispatched)

\* a turn of two calls is over and the model has been called after it
C3_Witness ==
  /\ pc = "model"
  /\ modelCalls >= 2
  /\ Len(turnToolResults) = 2
  /\ turnToolResults[1].tool_call_id # turnToolResults[2].tool_call_id

\* C4 as stated: arguments without apiKey get the minted key, arguments with
\* an apiKey of any value are dispatched unchanged.
C4_Original ==
  \A k \in 1..Len(dispatched) :
     LET d == dispatched[k]
     IN IF ModelArgs(d).apiKey.tag = "absent"
          THEN d.args = [ModelArgs(d) EXCEPT !.apiKey = userApiKey]
          ELSE d.args = ModelArgs(d)

\* C4 as amended: arguments whose apiKey is absent or falsy are dispatched
\* with apiKey set to the minted key and otherwise as the model wrote them;
\* arguments with a truthy apiKey are dispatched unchanged.
C4_InjectionRule ==
  \A k \in 1..Len(dispatched) :
     LET d == dispatched[k]
     IN IF ModelArgs(d).apiKey.tag \in {"absent", "falsy"}
          THEN d.args = [ModelArgs(d) EXCEPT !.apiKey = userApiKey]
          ELSE d.args = ModelArgs(d)

\* one call got the minted key, another kept the key the model wrote
C4_Witness ==
  /\ \E k \in 1..Len(dispatched) :
       /\ ModelArgs(dispatched[k]).apiKey = KeyAbsent
       /\ dispatched[k].args.apiKey = userApiKey
       /\ userApiKey.tag = "assistant"
  /\ \E k \in 1..Len(dispatched) :
       /\ ModelArgs(dispatched[k]).apiKey = KeyModel
       /\ dispatched[k].args.apiKey = KeyModel

\* what the handler does once a model response is in: another turn, the
\* reply, or the 'no content' failure
C5_Exit(hasContent) ==
  pc = "loop" =>
    IF Len(currentResponse.tool_calls) > 0 /\ turns < MAX_TURNS
      THEN pc' = "call" /\ sent' = 0
      ELSE IF hasContent
        THEN pc' = "done" /\ response'.success /\ response'.status = 200
        ELSE /\ pc' = "failed"
             /\ ~response'.success
             /\ response'.error = "Assistant error"
             /\ response'.message = NoContentMessage

\* C5 as stated: the loop ends exactly when the response has no tool calls or
\* MAX_TURNS is reached; the request is then Done iff the content of the last
\* response is a non-empty string, else Failed with the 'no content' error.
C5_Original ==
  [][C5_Exit(currentResponse.content.isString
             /\ StrLen(currentResponse.content.str) > 0)]_vars

\* C5 as amended: ... Done iff the content of the last response is a string
\* with at least one non-whitespace character, else Failed with 'no content'.
C5_ExitRule ==
  [][C5_Exit(currentResponse.content.isString
             /\ currentResponse.content.str.body > 0)]_vars

\* the first response had empty content and no tool calls: 'no content'
C5_Witness ==
  /\ pc = "failed"
  /\ response.message = NoContentMessage
  /\ modelCalls = 1
  /\ currentResponse = Response(StringVal(EmptyStr), <<>>)

\* the entry of toolResults the k-th dispatched call must have produced
ExpectedResult(k) ==
  [name |-> dispatched[k].call.name,
   payload |-> IF Throws(settled[k])
                 THEN Payload("error", 0, ErrorMessage(settled[k]))
                 ELSE extractToolPayload(settled[k].content)]

ResultsInDispatchOrder ==
  /\ Len(response.data.toolResults) = Len(dispatched)
  /\ \A k \in 1..Len(dispatched) : response.data.toolResults[k] = ExpectedResult(k)
  /\ \A k \in 1..Len(dispatched), l \in 1..Len(dispatched) :
       k < l => /\ dispatched[k].turn <= dispatched[l].turn
                /\ dispatched[k].call.id < dispatched[l].call.id

\* C6 as stated: on Done, reply is the content of the last model response and
\* toolResults has one entry per dispatched call, in dispatch order.
C6_Original ==
  pc = "done" =>
    /\ response.data.has
    /\ response.data.reply = currentResponse.content.str
    /\ ResultsInDispatchOrder

\* C6 as amended: on Done, reply is the content of the last model response
\* with leading and trailing whitespace removed, and toolResults has one entry
\* per dispatched call, in dispatch order, with the call's name and payload.
C6_ReplyAndResults ==
  pc = "done" =>
    /\ response.data.has
    /\ response.data.reply = Str(0, currentResponse.content.str.body, 0)
    /\ ResultsInDispatchOrder

\* Done after three calls over two turns or more, the content wrapped in whitespace
C6_Witness ==
  /\ pc = "done"
  /\ Len(dispatched) >= 3
  /\ dispatched[1].turn # dispatched[3].turn
  /\ currentResponse.content.str.lead > 0
  /\ Len(response.data.toolResults) >= 3

\* the request was turned away by the configuration, authentication or payload check
RejectedByCheck ==
  /\ pc = "failed"
  /\ response.error \in {"AI not configured", "Unauthorized", "Invalid payload",
                         "TypeError"}

NoCalls == listCalls = 0 /\ modelCalls = 0 /\ dispatched = <<>>

\* C7: a request that passes the checks calls the mint exactly once, before
\* any listTools, model or tool call; at most one row is stored; the key
\* injected into any tool call is the minted plaintext; a rejected request
\* mints nothing.
C7_MintOnce ==
  /\ mintCalls <= 1
  /\ Len(apikey) <= 2
  /\ (pc # "start" /\ ~RejectedByCheck) => mintCalls = 1
  /\ (pc = "start" \/ RejectedByCheck) =>
       mintCalls = 0 /\ apikey = <<OtherRow>> /\ userApiKey = KeyAbsent
  /\ ~NoCalls =>
       /\ mintCalls = 1
       /\ Len(apikey) = 2
       /\ userApiKey.tag = "assistant"
       /\ apikey[2].key = Sha256(userApiKey)
       /\ apikey[2].userId = currentUser
  /\ \A k \in 1..Len(dispatched) :
       dispatched[k].args.apiKey # ModelArgs(dispatched[k]).apiKey =>
         dispatched[k].args.apiKey = userApiKey

\* two tool calls carry the key of the one row the request stored
C7_Witness ==
  /\ Len(dispatched) >= 2
  /\ \A k \in 1..Len(dispatched) : dispatched[k].args.apiKey = userApiKey
  /\ Len(apikey) = 2
  /\ apikey[2].key = Sha256(userApiKey)
  /\ mintCalls = 1

\* C8: with AI_API_KEY unset the request fails with 'AI not configured' and
\* makes no model call, no tool call, no listTools call and no mint.
C8_NotConfigured ==
  aiApiKey = "unset" =>
    /\ mintCalls = 0
    /\ NoCalls
    /\ apikey = <<OtherRow>>
    /\ \/ pc = "start"
       \/ /\ pc = "failed"
          /\ sent = 1
          /\ response.status = 503
          /\ response.error = "AI not configured"
          /\ ~response.success

\* an authenticated request with a valid body was refused for the missing key
C8_Witness ==
  /\ aiApiKey = "unset"
  /\ currentUser # "none"
  /\ body = PlainBody
  /\ pc = "failed"
  /\ response.error = "AI not configured"

\* a message the payload check is to refuse: a role other than user/assistant
\* or a content that is not a non-empty string
RefusedMessage(m) ==
  \/ (m.role # "user" /\ m.role # "assistant")
  \/ ~m.content.isString
  \/ StrLen(m.content.str) = 0

RefusedBody ==
  \/ ~body.isArray
  \/ Len(body.items) = 0
  \/ \E i \in 1..Len(body.items) : RefusedMessage(body.items[i])

\* C9: a configured, authenticated request whose messages is not a non-empty
\* array, or holds at any position a message with a role other than
\* user/assistant or with empty content, is rejected with 'Invalid payload'
\* and makes no mint, no listTools call, no model call and no tool call.
C9_InvalidPayloadRejected ==
  (aiApiKey = "set" /\ currentUser # "none" /\ RefusedBody) =>
    /\ mintCalls = 0
    /\ NoCalls
    /\ \/ pc = "start"
       \/ /\ pc = "failed"
          /\ response.status = 400
          /\ response.error = "Invalid payload"

\* C10: when the mint fails the request ends with the internal-error
\* envelope and makes no listTools call, no model call and no tool call.
C10_MintFailureFatal ==
  /\ (mintCalls = 1 /\ pc # "mint" /\ userApiKey = KeyAbsent) =>
       /\ pc = "failed"
       /\ sent = 1
       /\ response.status = 500
       /\ response.error = "Internal Server Error"
       /\ ~response.success
       /\ ~response.data.has
       /\ NoCalls
  /\ response.error = "Internal Server Error" => NoCalls /\ pc = "failed"

\* the store was unavailable: nothing stored, internal error, no call made
C10_Witness ==
  /\ pc = "failed"
  /\ mintCalls = 1
  /\ response.error = "Internal Server Error"
  /\ apikey = <<OtherRow>>
  /\ NoCalls

\* the request ended by the handler's catch block
AssistantErrorSent ==
  /\ pc = "failed"
  /\ sent = 1
  /\ response.status = 502
  /\ response.success = FALSE
  /\ response.error = "Assistant error"

\* C11: when listTools fails, the request ends Failed with the 'Assistant
\* error' envelope, and no model call and no tool call is ever made for it.
C11_ListToolsFailureFatal ==
  listOutcome = "rejected" =>
    /\ AssistantErrorSent
    /\ response.message = RpcErrors[1]
    /\ listCalls = 1
    /\ modelCalls = 0
    /\ dispatched = <<>>

\* listMcpTools rejected after a successful mint
C11_Witness ==
  /\ listOutcome = "rejected"
  /\ mintCalls = 1
  /\ Len(apikey) = 2
  /\ pc = "failed"

\* C12: a failed model call, the first or a later one, aborts the
\* conversation: the call is not made again, no further tool call is made,
\* and the request ends Failed with the envelope kind of the empty-content
\* failure.
C12_ModelFailureFatal ==
  modelOutcome = "rejected" =>
    /\ AssistantErrorSent
    /\ \E k \in 1..Len(ModelErrors) : response.message = ModelErrors[k]
    /\ [response EXCEPT !.message = NoContentMessage]
         = Envelope(502, "Assistant error", NoContentMessage)
    /\ modelCalls = turns + 1
    /\ Len(dispatched) = Len(collectedToolPayloads)
    /\ Len(settled) = Len(dispatched)

\* the model call after a round of tool calls failed
C12_Witness ==
  /\ modelOutcome = "rejected"
  /\ pc = "failed"
  /\ turns >= 1
  /\ Len(dispatched) >= 1

(***************************************************************************)
(* Properties of the transport, under SpecMcp.                             *)
(***************************************************************************)
\* workers that are running
Alive == {c \in Conns : conns[c].worker = "alive"}

\* C13: the worker is spawned lazily and reused: none is spawned before the
\* first listTools/callTool, and while the current connection has reported
\* neither close nor error and resetMcpClient has not run, the calls of all
\* requests, one after the other or at once, cause no further spawn.
C13_LazyAndReused ==
  /\ started = 0 => conns = <<>>
  /\ resets = 0 => \A k \in 2..Len(conns) : conns[k - 1].reported

\* a call of request r is awaiting the client or the response
Pending(r) == callers[r].pc \in {"await", "sent"}

\* connection c reports close or error in this step
Reports(c) == ~conns[c].reported /\ conns'[c].reported

C14_Step ==
  /\ \A c \in Conns : Reports(c) => clientPromise' = 0
  /\ (clientPromise = 0 /\ started' = started + 1) =>
       /\ Len(conns') = Len(conns) + 1
       /\ conns'[Len(conns')] = NewConn
       /\ clientPromise' = Len(conns')
  /\ \A r \in Callers :
       Pending(r) =>
         /\ callers'[r].client = callers[r].client
         /\ callers'[r].pc = "done" => callers'[r].got.worker = callers[r].client
         /\ conns[callers[r].client].reported => callers'[r].pc # "done"

\* C14: once the current connection has reported close or error, the
\* singleton reference is cleared and the next listTools/callTool spawns a
\* fresh worker; the calls in flight on the old connection fail to their own
\* callers and are neither moved to nor answered by the new connection.
C14_EventInvalidates == [][C14_Step]_vars

\* C15: nothing but the singleton reference guards the creation: a call that
\* finds the reference empty spawns a worker of its own, also while an
\* earlier creation is still going on, so two requests calling before any
\* connection is established can each spawn a worker.
C15_Step ==
  (clientPromise = 0 /\ started' = started + 1) =>
    /\ Len(conns') = Len(conns) + 1
    /\ \E r \in Callers : callers'[r].pc = "await" /\ callers'[r].client = Len(conns')

C16_SingleWorker == Cardinality(Alive) <= 1

\* C17: invocations in flight on the shared connection carry pairwise distinct
\* ids, and every completed invocation holds the response to its own request,
\* whatever order the worker answers in.
C17_OwnResponse ==
  /\ \A r \in Callers : \A q \in Callers :
       (/\ r # q
        /\ callers[r].pc = "sent" /\ callers[q].pc = "sent"
        /\ callers[r].client = callers[q].client) => callers[r].id # callers[q].id
  /\ \A r \in Callers :
       callers[r].pc = "done" =>
         callers[r].got = Result(callers[r].client, callers[r].request)

\* request 1 holds the first id of the connection and is still waiting, while
\* request 2, sent later on the same connection, has its own response
C17_Witness ==
  /\ callers[1].pc = "sent" /\ callers[1].id = 0
  /\ callers[2].pc = "done" /\ callers[2].client = callers[1].client
  /\ callers[2].got = Result(callers[1].client, callers[2].request)
  /\ callers[2].request.by = 2
  /\ callers[1].request # callers[2].request

(***************************************************************************)
(* The scoped credential.                                                  *)
(***************************************************************************)
\* the tool calls of the assistant messages in the history
HistoryCalls ==
  UNION {{chatMessages[i].tool_calls[j] : j \in 1..Len(chatMessages[i].tool_calls)} :
           i \in {h \in 1..Len(chatMessages) : "tool_calls" \in DOMAIN chatMessages[h]}}

\* the tool messages of the history and of the running turn
ToolMessages ==
  LET all == chatMessages \o turnToolResults
  IN {all[i] : i \in {h \in 1..Len(all) : all[h].role = "tool"}}

\* C18: the minted plaintext reaches neither the caller nor the model: the
\* history holds every dispatched call with the arguments the model wrote and
\* no call carrying the minted key, and the tool messages and the response
\* body are determined by the calls and the worker's answers alone.
C18_PlaintextStaysInside ==
  /\ \A c \in HistoryCalls : c.arguments.apiKey.tag # "assistant"
  /\ \A k \in 1..Len(dispatched) : dispatched[k].call \in HistoryCalls
  /\ \A m \in ToolMessages :
       \E k \in 1..Len(settled) :
         m = ToolMessage(dispatched[k].call, ExpectedResult(k).payload)
  /\ response.data.has =>
       /\ Len(response.data.toolResults) = Len(settled)
       /\ \A k \in 1..Len(settled) : response.data.toolResults[k] = ExpectedResult(k)
       /\ response.data.reply = ensureString(currentResponse.content)

\* a reply was sent after a call that was dispatched with the minted key
C18_Witness ==
  /\ pc = "done"
  /\ userApiKey.tag = "assistant"
  /\ \E k \in 1..Len(dispatched) :
       /\ dispatched[k].args.apiKey = userApiKey
       /\ KeyIsFalsy(dispatched[k].call.arguments.apiKey)
  /\ Len(response.data.toolResults) >= 1

(***************************************************************************)
(* middleware/apiKey.ts: the key check of the data API, with the chat      *)
(* request's mint and the passing of time.                                 *)
(***************************************************************************)
\* the header trimmed (of an array, its first element): "" when it is absent
TrimmedKey(h) == IF h.form = "absent" THEN KeyFalsy ELSE h.text

\* variant: the presented key is looked up as it is
KeyHashPlain(apiKey) == apiKey

\* crypto.createHash("sha256").update(apiKey).digest("base64url")
KeyHash(apiKey) == Sha256(apiKey)

\* SELECT id, userId, enabled FROM apikey WHERE key = ?: the first row, 0 if none
StoredKey(keyHash) ==
  LET hits == {i \in 1..Len(apikey) : apikey[i].key = keyHash}
  IN IF hits = {} THEN 0 ELSE CHOOSE i \in hits : \A j \in hits : i <= j

\* the checks of apiKeyMiddleware, made at time at
CheckKey(h, at) ==
  LET apiKey == TrimmedKey(h)
      row == StoredKey(KeyHash(apiKey))
  IN IF apiKey = KeyFalsy THEN Verdict(401, "MISSING_API_KEY", "")
     ELSE IF row = 0 THEN Verdict(401, "INVALID_API_KEY", "")
     ELSE IF apikey[row].enabled = 0 THEN Verdict(401, "API_KEY_DISABLED", "")
     ELSE Verdict(200, "OK", apikey[row].userId)

\* a request to the data API passes the key check or is answered by it
apiKeyMiddleware ==
  \E h \in Headers :
    /\ header' = h
    /\ checkedAt' = now
    /\ verdict' = CheckKey(h, now)
    /\ UNCHANGED <<handler, mcp, pair, rate, now, session>>

\* getDatabase or the query throws: the inner catch answers
ValidationError ==
  \E h \in Headers :
    /\ TrimmedKey(h) # KeyFalsy
    /\ header' = h
    /\ checkedAt' = now
    /\ verdict' = Verdict(500, "VALIDATION_ERROR", "")
    /\ UNCHANGED <<handler, mcp, pair, rate, now, session>>

\* a day passes once the chat request has minted its key
Tick ==
  /\ pc \notin {"start", "mint"}
  /\ now < MaxDays * DayMs
  /\ now' = now + DayMs
  /\ UNCHANGED <<handler, mcp, pair, rate, header, checkedAt, verdict, session>>

KeyNext ==
  \/ BeginMint
  \/ MintOk
  \/ apiKeyMiddleware
  \/ ValidationError
  \/ Tick

KeyStart ==
  /\ HandlerInit
  /\ aiApiKey = "set"
  /\ currentUser = "u1"
  /\ body = PlainBody
  /\ McpInit
  /\ ApiInit
  /\ PairInit
  /\ RateInit

SpecKey == KeyStart /\ [][KeyNext]_vars

KeyTypeOK ==
  /\ now \in {MaxDrift + d * DayMs : d \in 0..MaxDays}
  /\ header \in Headers
  /\ checkedAt \in {0} \cup {MaxDrift + d * DayMs : d \in 0..MaxDays}
  /\ verdict.status \in {0, 200, 401, 500}
  /\ pc \in {"start", "mint", "listTools"}

\* the row the last check found
Matched == StoredKey(KeyHash(TrimmedKey(header)))

\* C19: a minted credential authenticates only until its expiresAt: a request
\* presenting a key whose row has an expiresAt that has passed is rejected.
C19_ExpiredRejected ==
  (/\ userApiKey.tag = "assistant"
   /\ TrimmedKey(header) = userApiKey
   /\ Matched # 0
   /\ apikey[Matched].expiresAt < checkedAt) => verdict.code # "OK"

\* the digests the store holds
StoredDigests == {apikey[i].key : i \in 1..Len(apikey)}

\* C20: mint and verify round-trip.  The mint stores the digest of the
\* plaintext, never the plaintext, bound to the authenticated user and
\* enabled; a check that reads the store resolves the minted plaintext to its
\* owner, resolves no key to a user other than the owner of its row, and
\* rejects a stored digest and every string that was never minted.
C20_Step ==
  /\ userApiKey' # userApiKey =>
       LET row == apikey'[Len(apikey')]
       IN /\ Len(apikey') = Len(apikey) + 1
          /\ row.key = Sha256(userApiKey')
          /\ row.key # userApiKey'
          /\ row.userId = currentUser
          /\ row.enabled = 1
  /\ (<<header, checkedAt, verdict>>' # <<header, checkedAt, verdict>>
        /\ verdict'.status # 500) =>
       LET k == TrimmedKey(header')
       IN /\ (userApiKey.tag = "assistant" /\ k = userApiKey) =>
               verdict' = Verdict(200, "OK", currentUser)
          /\ k \in StoredDigests => verdict'.status = 401
          /\ Sha256(k) \notin StoredDigests => verdict'.status = 401
          /\ verdict'.code = "OK" =>
               \E i \in 1..Len(apikey) :
                 apikey[i].key = Sha256(k) /\ apikey[i].userId = verdict'.userId

C20_MintVerifyRoundTrip == [][C20_Step]_vars

\* the minted plaintext, sent with whitespace around it, was resolved to the
\* user of the chat request
C20_Witness ==
  /\ userApiKey.tag = "assistant"
  /\ header = Header("string", 1, userApiKey)
  /\ verdict = Verdict(200, "OK", currentUser)
  /\ apikey[Len(apikey)].key = Sha256(userApiKey)

(***************************************************************************)
(* Sanitization, tool results, the credential store and the history.       *)
(***************************************************************************)
\* the sanitized history: what follows the system prompt in the first list
Sanitized == SubSeq(chatMessages, 2, 1 + Len(SliceLast(body.items, MaxHistory)))

\* sanitizeMessages threw on the history it was given
SanitizeThrew ==
  /\ pc = "failed"
  /\ response = Envelope(502, "Assistant error", "Cannot read properties of null")

\* C21: for any caller-supplied history sanitizeMessages returns the trailing
\* min(12, n) messages in their order, each role assistant if it was assistant
\* and user otherwise, each content the first 4000 characters of the original
\* (nothing where the original has no text): length <= 12, contents <= 4000.
C21_SanitizedHistory ==
  /\ ~SanitizeThrew
  /\ chatMessages # <<>> =>
       LET n == Len(body.items)
           k == IF n <= MaxHistory THEN n ELSE MaxHistory
       IN /\ Len(chatMessages) >= 1 + k
          /\ Len(Sanitized) = k
          /\ k <= 12
          /\ \A i \in 1..k :
               LET m == body.items[n - k + i]
               IN /\ Sanitized[i].role = IF m.role = "assistant" THEN "assistant" ELSE "user"
                  /\ Sanitized[i].content.isString
                  /\ StrLen(Sanitized[i].content.str) <= 4000
                  /\ Sanitized[i].content.str =
                       IF m.content.isString THEN Slice0(m.content.str, 4000)
                       ELSE EmptyStr

\* C22 as stated: listTools is invoked once per model turn, so a chat request
\* has made as many tools/list requests as model calls.
C22_Original == pc \in {"done", "failed"} /\ modelCalls >= 1 => listCalls = modelCalls

\* C22 as amended: listTools is invoked once per chat request, before the
\* first model call; every model call of the request is given the tool specs
\* derived from that one list.
C22_Step == modelCalls >= 1 => tools' = tools /\ listCalls' = listCalls

C22_ListedOncePerRequest ==
  /\ [](listCalls <= 1 /\ (modelCalls >= 1 => listCalls = 1))
  /\ [][C22_Step]_vars

\* Done after three model calls and one tools/list
C22_Witness == pc = "done" /\ modelCalls = 3 /\ listCalls = 1 /\ tools # <<>>

C24_Step ==
  /\ Len(apikey') \in {Len(apikey), Len(apikey) + 1}
  /\ SubSeq(apikey', 1, Len(apikey)) = apikey

C24_AppendOnly ==
  /\ [](/\ Len(apikey) \in {1, 2}
        /\ apikey[1] = OtherRow
        /\ userApiKey.tag = "assistant" =>
             /\ Len(apikey) = 2
             /\ apikey[2].key = Sha256(userApiKey)
             /\ apikey[2].enabled = 1)
  /\ [][C24_Step]_vars

\* the request failed on listTools after its mint; its row is there, enabled
C24_Witness ==
  /\ pc = "failed"
  /\ listOutcome = "rejected"
  /\ apikey = <<OtherRow, KeyRow(currentUser, userApiKey, 0, DayMs)>>
  /\ apikey[2].enabled = 1

\* C25: every stored credential has expiresAt = createdAt + 24 hours exactly,
\* whatever time passes between the steps of the mint.
C25_ExpiryExact ==
  \A i \in 1..Len(apikey) : apikey[i].expiresAt = apikey[i].createdAt + DayMs

\* the text blocks of a result that no text block precedes (one or none)
LeadingText(content) ==
  {i \in 1..Len(content) :
     content[i].type = "text" /\ \A j \in 1..(i - 1) : content[j].type # "text"}

\* C26 as stated: the payload is the JSON value of the first text block's text
\* if it parses and the raw string otherwise; a result with no text block,
\* or with a text block without text, is recorded as a tool error.
C26_Original ==
  \A k \in 1..Len(collectedToolPayloads) :
     ~settled[k].rejected =>
       LET c == settled[k].content
           p == collectedToolPayloads[k].payload
       IN IF LeadingText(c) = {} THEN p.t = "error"
          ELSE \A i \in LeadingText(c) :
                 IF ~c[i].isString THEN p.t = "error"
                 ELSE CASE c[i].text = "json" -> p = Payload("object", c[i].v, "")
                        [] c[i].text = "jsonnull" -> p = Payload("null", 0, "")
                        [] c[i].text = "raw" -> p = Payload("string", c[i].v, "")
                        [] OTHER -> p.t \in {"error", "string"}

\* C26 as amended: the payload comes from the first text block of the result:
\* the empty object if its text is empty or blank, else the JSON value of the
\* text if it parses, else the string; the call is recorded as a tool error
\* exactly when there is no text block or the first one's text is no string.
C26_PayloadRule ==
  \A k \in 1..Len(collectedToolPayloads) :
     ~settled[k].rejected =>
       LET c == settled[k].content
           p == collectedToolPayloads[k].payload
       IN IF LeadingText(c) = {} THEN p = Payload("error", 0, NoTextMessage)
          ELSE \A i \in LeadingText(c) :
                 IF ~c[i].isString THEN p = Payload("error", 0, NoTextMessage)
                 ELSE CASE c[i].text = "json" -> p = Payload("object", c[i].v, "")
                        [] c[i].text = "jsonnull" -> p = Payload("null", 0, "")
                        [] c[i].text = "raw" -> p = Payload("string", c[i].v, "")
                        [] OTHER -> p = Payload("emptyobject", 0, "")

\* a result with an image block, a text block that is no JSON and a text
\* block that is: the payload is the string of the first text block
C26_Witness ==
  \E k \in 1..Len(collectedToolPayloads) :
     /\ ~settled[k].rejected
     /\ Len(settled[k].content) = 3
     /\ settled[k].content[2].text = "raw" /\ settled[k].content[3].text = "json"
     /\ collectedToolPayloads[k].payload.t = "string"

(***************************************************************************)
(* middleware/apiKey.ts: combinedAuthMiddleware, the preHandler of the     *)
(* chat endpoint.  A request carries an x-api-key header and a session:    *)
(* none, the session of a user, or one whose lookup throws.                *)
(***************************************************************************)
Sessions == {"none", "u1", "throws"}

\* auth.api.getSession and what follows it
SessionVerdict(s) ==
  IF s = "throws" THEN Verdict(401, "Invalid authentication", "")
  ELSE IF s = "none" THEN Verdict(401, "Authentication required (session or API key)", "")
  ELSE Verdict(200, "OK", s)

\* if (apiKey) return apiKeyMiddleware(request, reply); otherwise the session
CombinedVerdict(h, s, at) ==
  IF TrimmedKey(h) # KeyFalsy THEN CheckKey(h, at) ELSE SessionVerdict(s)

combinedAuthMiddleware ==
  \E h \in Headers, s \in Sessions :
    /\ header' = h
    /\ session' = s
    /\ checkedAt' = now
    /\ verdict' = CombinedVerdict(h, s, now)
    /\ UNCHANGED <<handler, mcp, pair, rate, now>>

\* an API key is presented and getDatabase or the query throws
CombinedValidationError ==
  \E h \in Headers, s \in Sessions :
    /\ TrimmedKey(h) # KeyFalsy
    /\ header' = h
    /\ session' = s
    /\ checkedAt' = now
    /\ verdict' = Verdict(500, "VALIDATION_ERROR", "")
    /\ UNCHANGED <<handler, mcp, pair, rate, now>>

AuthNext ==
  \/ BeginMint
  \/ MintOk
  \/ combinedAuthMiddleware
  \/ CombinedValidationError

SpecAuth == KeyStart /\ [][AuthNext]_vars

\* C27: the combined middleware tries the session first and falls back to
\* the API key only without a session: a request with a valid session is
\* authenticated as the session's user whatever its x-api-key header holds.
C27_SessionFirst ==
  (verdict # NoVerdict /\ session \notin {"none", "throws"}) =>
    verdict = Verdict(200, "OK", session)

(***************************************************************************)
(* Idempotence of listTools, under SpecMcp.                                *)
(***************************************************************************)
\* request r calls listMcpTools in this step
Lists(r) == callers[r].pc = "idle" /\ callers'[r].pc = "await"

\* a close event, an error event or a step of resetMcpClient
Restart ==
  \/ events' # events
  \/ resets' # resets
  \/ resetPc' # resetPc
  \/ \E c \in Conns : conns[c].worker # "dead" /\ conns'[c].worker = "dead"

\* the listTools calls so far
Listed == {r \in Callers : callers[r].request.method = "tools/list"}

\* C28: listTools is idempotent.  A listTools call that finds a connection
\* changes no transport state and is served by that connection; one that
\* finds none leaves the connection it created; only a restart takes a
\* connection away; so listTools calls with no restart between them are
\* served by the same worker, whose answer is what each of them returns.
C28_Step ==
  /\ \A r \in Callers : Lists(r) =>
       /\ clientPromise # 0 => UNCHANGED <<clientPromise, transport, conns>>
       /\ callers'[r].client = clientPromise'
       /\ clientPromise' # 0
  /\ (clientPromise # 0 /\ clientPromise' # clientPromise) => Restart

Terminal == pc \in {"done", "failed"}

\* C29: if every awaited call settles, every chat request reaches Done or
\* Failed, and it has sent exactly one response then and none before.
C29_EndsWithOneResponse ==
  /\ <>Terminal
  /\ [](Terminal => sent = 1)
  /\ [](~Terminal => sent = 0)

\* Done, one response sent, after the turn bound was reached
C29_Witness == pc = "done" /\ sent = 1 /\ turns = MAX_TURNS /\ response.success

(***************************************************************************)
(* The message list given to the model.                                    *)
(***************************************************************************)
\* the list from position p on is n turns: an assistant message with its tool
\* calls followed by one tool message per call, in the order of the calls
RECURSIVE TurnsFrom(_, _)
TurnsFrom(p, n) ==
  IF n = 0 THEN p = Len(chatMessages) + 1
  ELSE /\ p <= Len(chatMessages)
       /\ chatMessages[p].role = "assistant"
       /\ "tool_calls" \in DOMAIN chatMessages[p]
       /\ LET cs == chatMessages[p].tool_calls
          IN /\ Len(cs) > 0
             /\ p + Len(cs) <= Len(chatMessages)
             /\ \A j \in 1..Len(cs) :
                  /\ chatMessages[p + j].role = "tool"
                  /\ chatMessages[p + j].tool_call_id = cs[j].id
                  /\ chatMessages[p + j].name = cs[j].name
             /\ TurnsFrom(p + Len(cs) + 1, n - 1)

\* the list of a model call: the system prompt, the sanitized history, and one
\* turn for every model call before this one
WellFormed ==
  LET history == sanitizeMessages(body.items)
  IN /\ Len(chatMessages) >= 1 + Len(history)
     /\ chatMessages[1] = [role |-> "system", content |-> buildSystemPrompt]
     /\ SubSeq(chatMessages, 2, 1 + Len(history)) = history
     /\ TurnsFrom(2 + Len(history), modelCalls - 1)

\* a step leaves the messages already in the list as they are; a model call
\* after the first is given the list of the call before it, extended by that
\* call's response and one tool message for each of its tool calls; the list
\* is not touched while the model call is awaited
C30_Step ==
  /\ chatMessages # <<>> =>
       /\ Len(chatMessages') >= Len(chatMessages)
       /\ SubSeq(chatMessages', 1, Len(chatMessages)) = chatMessages
  /\ pc = "model" => chatMessages' = chatMessages
  /\ (modelCalls >= 1 /\ modelCalls' = modelCalls + 1) =>
       LET cs   == currentResponse.tool_calls
           last == Len(chatMessages') - Len(cs)
       IN /\ last >= 1
          /\ chatMessages'[last] = currentResponse
          /\ Len(chatMessages') = Len(chatMessages) + Len(cs)
          /\ \A j \in 1..Len(cs) : chatMessages'[last + j].tool_call_id = cs[j].id

\* C30: the message list given to the model is append-only and well-formed at
\* every model call: the system prompt, then the sanitized caller history,
\* then for each earlier call its assistant tool-call message followed by one
\* tool message per tool call; no earlier message is changed or removed.
C30_AppendOnlyWellFormed ==
  /\ [](pc = "model" => WellFormed)
  /\ [][C30_Step]_vars

\* the third model call of a request, after a turn of two tool calls
C30_Witness ==
  /\ pc = "model"
  /\ modelCalls = 3
  /\ Len(body.items) >= 2
  /\ \E i \in 1..Len(chatMessages) :
       /\ "tool_calls" \in DOMAIN chatMessages[i]
       /\ Len(chatMessages[i].tool_calls) = 2

(***************************************************************************)
(* The exhausted turn bound and the failure envelope.                      *)
(***************************************************************************)
\* the turn bound is used up and the last response still asks for tool calls
Exhausted ==
  /\ turns = MAX_TURNS
  /\ modelCalls = MAX_TURNS + 1
  /\ modelOutcome = "message"
  /\ Len(toolCalls) > 0

\* what the handler does with such a response
C31_Exit(hasContent) ==
  (pc = "loop" /\ Exhausted) =>
    /\ dispatched' = dispatched
    /\ IF hasContent
         THEN /\ pc' = "done"
              /\ response'.success
              /\ response'.data.toolResults = collectedToolPayloads
              /\ Len(collectedToolPayloads) = Len(dispatched)
              /\ \A t \in 1..MAX_TURNS : \E k \in 1..Len(dispatched) : dispatched[k].turn = t
         ELSE /\ pc' = "failed"
              /\ ~response'.success
              /\ response'.message = NoContentMessage

\* the calls of that response were not dispatched
NotDispatched ==
  (pc \in {"loop", "done", "failed"} /\ Exhausted) =>
    \A k \in 1..Len(dispatched), j \in 1..Len(toolCalls) :
      dispatched[k].call.id # toolCalls[j].id

\* C31 as stated: when the turn bound is exhausted while the last response
\* still requests tool calls, they are never dispatched; with non-empty
\* content the request succeeds and reports the tool results of the 5
\* executed rounds, with empty content it fails.
C31_Original ==
  /\ []NotDispatched
  /\ [][C31_Exit(currentResponse.content.isString
                 /\ StrLen(currentResponse.content.str) > 0)]_vars

\* C31 as amended: ... with content that is a string holding a non-whitespace
\* character the request succeeds and reports the tool results of the 5
\* executed rounds; with any other content it fails with 'no content'.
C31_ExhaustedExit ==
  /\ []NotDispatched
  /\ [][C31_Exit(currentResponse.content.isString
                 /\ currentResponse.content.str.body > 0)]_vars

\* Done after five rounds with the sixth response asking for a further call
C31_Witness ==
  /\ pc = "done"
  /\ Exhausted
  /\ Len(response.data.toolResults) >= MAX_TURNS
  /\ Len(dispatched) = Len(response.data.toolResults)

\* the error kinds of the handler's own failure envelopes
ErrorKinds ==
  {"AI not configured", "Unauthorized", "Invalid payload", "Internal Server Error",
   "Assistant error"}

\* C32: every terminal failure returns only the envelope {success:false,
\* error, message} with an error kind of the fixed set, and never a reply or
\* a tool result, even when tool calls were executed before the failure.
C32_FailureEnvelope ==
  pc = "failed" =>
    /\ sent = 1
    /\ ~response.success
    /\ response.error \in ErrorKinds
    /\ response.data = NoData

(***************************************************************************)
(* Failed connection attempts, late events and resets.                     *)
(***************************************************************************)
\* the stored promise is the rejected promise of a failed connection attempt
Retained == clientPromise # 0 /\ conns[clientPromise].promise = "rejected"

\* request r awaits a connection attempt that has failed
AwaitsFailed(r) ==
  callers[r].pc = "await" /\ conns[callers[r].client].promise = "rejected"

\* request r starts a call in this step
Starts(r) == callers[r].pc # "await" /\ callers'[r].pc = "await"

\* a call that starts when no failed attempt is stored awaits an attempt that
\* has not failed, a fresh one if nothing is stored; a failed attempt goes to
\* none but the calls that await it
C33_Step ==
  /\ \A r \in Callers : Starts(r) =>
       /\ clientPromise = 0 =>
            /\ Len(conns') = Len(conns) + 1
            /\ callers'[r].client = Len(conns')
            /\ conns'[Len(conns')] = NewConn
       /\ ~Retained => conns'[callers'[r].client].promise # "rejected"
  /\ \A r \in Callers : (callers[r].pc # "failed" /\ callers'[r].pc = "failed") =>
       \/ AwaitsFailed(r)
       \/ conns[callers[r].client].worker # "alive"

CurrentUntouched ==
  /\ clientPromise # 0
  /\ ~conns[clientPromise].reported
  /\ conns'[clientPromise] = conns[clientPromise]
  /\ resets' = resets
  /\ resetPc' = resetPc

\* C34: a close or error event of an old connection that arrives after a
\* newer connection has become the singleton does not invalidate the newer
\* one: the singleton reference is cleared only by events of the connection
\* it refers to (or by resetMcpClient).
C34_Step == CurrentUntouched => clientPromise' = clientPromise

C34_StaleEventIgnored == [][C34_Step]_vars

\* resetMcpClient completes in this step
ResetCompletes ==
  \/ resetPc = "closing" /\ resetPc' = "idle"
  \/ resetPc = "idle" /\ resetPc' = "idle" /\ resets' # resets

\* C35: resetMcpClient is safe under interleaving with callers: once it
\* completes, every worker the transport has spawned is closed or is the one
\* the singleton refers to; a connection created by a concurrent call while
\* the reset awaited the close is neither dropped nor left without reference.
C35_Step ==
  ResetCompletes =>
    \A c \in Conns : conns'[c].worker = "alive" => clientPromise' = c

C35_ResetSafe == [][C35_Step]_vars

(***************************************************************************)
(* Two chat requests on the shared worker.                                 *)
(***************************************************************************)
\* variant: the handler keeps the minted key in a variable of the module
ChatMintShared(r) ==
  /\ chats[r].pc = "start"
  /\ \E t \in 0..MaxDrift, sfx \in Suffixes :
       /\ apikey' = Append(apikey,
            KeyRow(ChatUser(r), Plaintext(ChatUser(r), t, sfx), t, t + DayMs))
       /\ chats' = [q \in Chats |->
            [chats[q] EXCEPT !.userApiKey = Plaintext(ChatUser(r), t, sfx),
                             !.pc = IF q = r THEN "loop" ELSE @]]
  /\ UNCHANGED <<mcp, api, rate, input, loopVars, calls, tool, env, pc, userApiKey,
                 response, sent, wire>>

\* userApiKey = await getOrCreateApiKey(currentUser.id), in request r
ChatMint(r) ==
  /\ chats[r].pc = "start"
  /\ \E t \in 0..MaxDrift, sfx \in Suffixes :
       /\ apikey' = Append(apikey,
            KeyRow(ChatUser(r), Plaintext(ChatUser(r), t, sfx), t, t + DayMs))
       /\ chats' = [chats EXCEPT ![r].userApiKey = Plaintext(ChatUser(r), t, sfx),
                                 ![r].pc = "loop"]
  /\ UNCHANGED <<mcp, api, rate, input, loopVars, calls, tool, env, pc, userApiKey,
                 response, sent, wire>>

\* request r parses the arguments of a tool call, injects its key where the
\* model gave none and calls callMcpTool: the request is written to the worker
ChatDispatch(r) ==
  /\ chats[r].pc = "loop"
  /\ chats[r].calls < MaxChatCalls
  /\ \E k \in {KeyAbsent, KeyFalsy, KeyModel} :
       LET args == InjectApiKey(ParseArguments(Arguments("object", k, 0)),
                                chats[r].userApiKey)
       IN wire' = Append(wire, [by |-> r, apiKey |-> args.apiKey,
                                injected |-> KeyIsFalsy(k)])
  /\ chats' = [chats EXCEPT ![r].pc = "tool", ![r].calls = @ + 1]
  /\ UNCHANGED <<handler, mcp, api, rate>>

\* the awaited callMcpTool of request r settles
ChatSettle(r) ==
  /\ chats[r].pc = "tool"
  /\ chats' = [chats EXCEPT ![r].pc = "loop"]
  /\ UNCHANGED <<handler, mcp, api, rate, wire>>

\* the model asks for no further call: request r replies
ChatReply(r) ==
  /\ chats[r].pc = "loop"
  /\ chats' = [chats EXCEPT ![r].pc = "done"]
  /\ UNCHANGED <<handler, mcp, api, rate, wire>>

ChatMinted == \E r \in Chats : ChatMint(r)

ChatDispatched == \E r \in Chats : ChatDispatch(r)

ChatSettled == \E r \in Chats : ChatSettle(r)

ChatReplied == \E r \in Chats : ChatReply(r)

ChatNext ==
  \/ ChatMinted
  \/ ChatDispatched
  \/ ChatSettled
  \/ ChatReplied

SpecChats == KeyStart /\ [][ChatNext]_vars

\* the rows of the apikey table that hold the digest of key k
RowsOf(k) == {i \in 1..Len(apikey) : apikey[i].key = Sha256(k)}

\* C36: credentials are isolated between concurrent conversations: a tool
\* call dispatched for one request is injected only with the credential
\* minted for that request, never with one minted for another request or
\* user (and a key the model supplied is passed on as it is).
C36_CredentialsIsolated ==
  \A n \in 1..Len(wire) :
    LET w == wire[n]
    IN IF w.injected
         THEN /\ w.apiKey.tag = "assistant"
              /\ w.apiKey.userId = ChatUser(w.by)
              /\ RowsOf(w.apiKey) # {}
              /\ \A i \in RowsOf(w.apiKey) : apikey[i].userId = ChatUser(w.by)
         ELSE w.apiKey = KeyModel

\* the two requests dispatched in turn, the first again after the second
\* had minted and dispatched, each call with a key injected
C36_Witness ==
  /\ Len(wire) = 4
  /\ wire[1].by = 1 /\ wire[2].by = 2 /\ wire[3].by = 1 /\ wire[4].by = 2
  /\ \A n \in 1..4 : wire[n].injected
  /\ Len(apikey) = 3

(***************************************************************************)
(* Arguments, blank messages and the rate limiter.                         *)
(***************************************************************************)
\* C37: no argument string chosen by the model can abort the conversation:
\* whatever the arguments of a tool call are (absent, not JSON, JSON that is
\* not an object), the call is handled within the turn, dispatched with the
\* credential injected or recorded as that call's tool error, and the
\* request does not end Failed because of it.
C37_Step ==
  (pc = "call" /\ callIdx <= Len(toolCalls)) =>
    /\ sent' = sent
    /\ \/ /\ pc' = "tool"
          /\ Len(dispatched') = Len(dispatched) + 1
          /\ dispatched'[Len(dispatched')].call = toolCalls[callIdx]
       \/ /\ pc' = "call"
          /\ callIdx' = callIdx + 1
          /\ Len(turnToolResults') = Len(turnToolResults) + 1

C37_ArgumentsNeverFatal == [][C37_Step]_vars

\* C38: every caller message that reaches the model has non-blank content:
\* for every request that passes the payload validation, each message of the
\* sanitized history holds a non-whitespace character after the truncation
\* to 4000 characters.
C38_NoBlankMessage ==
  modelCalls >= 1 =>
    \A i \in 1..Len(SliceLast(body.items, MaxHistory)) :
      /\ chatMessages[1 + i].content.isString
      /\ chatMessages[1 + i].content.str.body > 0

\* !entry || entry.resetTime <= now
Expired(entry, t) == ~entry.has \/ entry.resetTime <= t

\* the entry after a request to limiter l at time t: a fresh window where
\* there is none or the last one is over, and the counter incremented
Hit(entry, l, t) ==
  LET current == IF Expired(entry, t)
                   THEN [has |-> TRUE, count |-> 0,
                         resetTime |-> t + rateLimits[l].window]
                   ELSE entry
  IN [current EXCEPT !.count = @ + 1]

\* a request from ip passes the middleware createRateLimitMiddleware made for
\* limiter l; windows keeps, next to it, the entry l would hold of its own
rateLimitMiddleware ==
  \E l \in Limiters, ip \in Ips :
    LET key   == generateKey(ip)
        entry == Hit(store[key], l, now)
    IN /\ store[key].count < MaxCount
       /\ store' = [store EXCEPT ![key] = entry]
       /\ windows' = [windows EXCEPT ![l][ip] = Hit(@, l, now)]
       /\ verdict' = IF entry.count > rateLimits[l].max
                       THEN Verdict(429, "RATE_LIMIT_EXCEEDED", ip)
                       ELSE Verdict(200, "OK", ip)
       /\ UNCHANGED <<handler, mcp, pair, now, header, checkedAt, session>>

\* the interval's sweep: entries whose window is over are deleted
cleanupStore ==
  /\ \E k \in DOMAIN store : store[k].has /\ store[k].resetTime <= now
  /\ store' = [k \in DOMAIN store |->
                 IF store[k].has /\ store[k].resetTime <= now THEN NoEntry
                 ELSE store[k]]
  /\ UNCHANGED <<handler, mcp, api, pair, windows>>

\* a minute passes
RateTick ==
  /\ now < MaxMinutes * MinuteMs
  /\ now' = now + MinuteMs
  /\ UNCHANGED <<handler, mcp, pair, rate, header, checkedAt, verdict, session>>

RateNext ==
  \/ rateLimitMiddleware
  \/ cleanupStore
  \/ RateTick

SpecRate == KeyStart /\ [][RateNext]_vars

\* C39: each configured limiter enforces its own limit per client IP: a
\* request is refused exactly when the limiter has counted more than max
\* requests from that IP in its own window, whatever requests the IP makes
\* to the other limiters (they change neither its count nor its reset time).
C39_Step ==
  \A l \in Limiters, ip \in Ips :
    windows'[l][ip] # windows[l][ip] =>
      (verdict'.status = 429 <=> windows'[l][ip].count > rateLimits[l].max)

C39_OwnLimit == [][C39_Step]_vars

====
